---- MODULE Spec2Model ----
(***************************************************************************)
(* cobra-db: grouping of flat ImageMetadata documents into                 *)
(* RadiologicalSeries, RadiologicalStudy and Patient documents (stage 2),  *)
(* the DAOs' insert_one with their lazily created unique indexes, and the  *)
(* tag-consensus functions of cobra_db/utils.py.                           *)
(*                                                                         *)
(* The document store is MongoDB reached through pymongo.  What the model  *)
(* takes from it: insert_one and update_one raise DuplicateKeyError when a *)
(* unique index exists and the written key is already held by another      *)
(* document; create_index(unique=True) raises DuplicateKeyError and builds *)
(* nothing when the collection already holds two documents with one key,   *)
(* and is a no-op when the index exists; a field that is absent from a     *)
(* document is indexed and matched as null; find_one returns some matching *)
(* document (no order is promised when several match).                     *)
(***************************************************************************)
EXTENDS Naturals, Integers, Sequences, FiniteSets, TLC

VARIABLES
    db,            \* collection name -> sequence of documents; _id = position
    unique_index,  \* the collections on which the unique index exists
    worker,        \* per worker process: the batch function it runs and its locals
    history,       \* completed runs: which stage, how it ended, the store afterwards
    calls,         \* completed direct DAO calls (insert_one called by a client)
    dicts,         \* input of the tag-consensus functions
    result,        \* the output of intersect_dicts_allow_empty_minority
    out,           \* the output of another function applied to dicts
    pool,          \* the coordinator of a multi-worker run (main_multiproc)
    frame          \* a call of a function of its own: arguments, locals, result

vars == <<db, unique_index, worker, history, calls, dicts, result, out, pool,
         frame>>

----------------------------------------------------------------------------
(* Bounds *)

\* documents the ImageMetadata collection can grow to in the sequential runs
MaxImages == 2
\* stage runs of one behaviour of the sequential runs
MaxRuns == 3
\* images of the racing-workers scenarios
RaceImages == 2
\* batches each racing worker starts
RaceRuns == 1
\* images, stage runs and stopped workers of the runs with ingestion and stops
OpsImages == 2
OpsRuns == 4
MaxStops == 1
\* direct insert_one calls of one behaviour
MaxCalls == 2
\* longest record list given to the consensus functions
MaxDicts == 3
\* images of one proto-group whose tags are brought together
MaxGroup == 3
\* images of the pipeline run over incomplete tags
FaultImages == 2
FaultRuns == 4
\* stage runs of the multi-worker pipeline
PoolRuns == 3
\* images of the runs over two series
LinkImages == 2
\* items of the sequence batcher cuts, and its batch_size
MaxItems == 4
MaxBatchSize == 3

----------------------------------------------------------------------------
(* Values *)

\* Python's None, and a key that is not in a dict
None == "None"
Absent == "Absent"
\* an unset ObjectId reference (to_dict drops it; MongoDB reads it as null)
NoId == 0
\* datetime None, and strptime raising ValueError
NoDate == <<>>
ValueError == <<"ValueError">>

\* str(v).  "i1" stands for the int 1 and "s1" for the string "1": different
\* values with one string form; every other value prints as itself.
Str(v) == CASE v = "i1" -> "1"
            [] v = "s1" -> "1"
            [] v = "i2" -> "2"
            [] OTHER -> v

----------------------------------------------------------------------------
(* cobra_db/utils.py *)

\* values = [d[k] for d in dicts if d.get(k, None) is not None]
RECURSIVE ValuesOf(_, _)
ValuesOf(ds, k) ==
    IF ds = <<>> THEN <<>>
    ELSE IF Head(ds)[k] \notin {Absent, None}
         THEN <<Head(ds)[k]>> \o ValuesOf(Tail(ds), k)
         ELSE ValuesOf(Tail(ds), k)

MajorityTie(n) == n \div 2

\* majority = (n_dicts // 2) + 1
Majority(n) == (n \div 2) + 1

\* intersect_dicts_allow_empty_minority; a dict is a function from the key
\* universe to a value, None or Absent, the result likewise (Absent: not kept).
intersect_dicts_allow_empty_minority(ds) ==
    LET n_dicts == Len(ds)
        majority == Majority(n_dicts)
        keys == DOMAIN ds[1]
        all_keys == {k \in keys : \E i \in 1..n_dicts : ds[i][k] # Absent}
        add_key(k) ==
            LET values == ValuesOf(ds, k)
                n_values == Len(values)
            IN  /\ ~(n_values < majority)
                /\ (n_values > 1 =>
                      \A j \in 2..n_values : Str(values[1]) = Str(values[j]))
                /\ n_values # 0
    IN  [k \in keys |->
            IF k \in all_keys /\ add_key(k) THEN ValuesOf(ds, k)[1] ELSE Absent]

\* intersect_dicts: the keys of the first dict whose value every other dict
\* holds (not None) with the same string form; the first dict's value is kept.
intersect_dicts(ds) ==
    LET v_s(k) == Str(ds[1][k])
        add_pair(k) ==
            \A i \in 2..Len(ds) :
                /\ ds[i][k] \notin {Absent, None}
                /\ Str(ds[i][k]) = v_s(k)
    IN  [k \in DOMAIN ds[1] |->
            IF ds[1][k] # Absent /\ add_pair(k) THEN ds[1][k] ELSE Absent]

\* parse_DA_TM_as_datetime: None for the two defaults, ValueError when strptime
\* cannot read the date (the default "00000000" is no date), else the datetime.
parse_DA_TM_as_datetime(DA, TM) ==
    IF DA = "00000000" /\ TM = "000000" THEN NoDate
    ELSE IF DA = "00000000" THEN ValueError
    ELSE <<DA, TM>>

----------------------------------------------------------------------------
(* Documents *)

TagKeys == {"PatientID", "StudyDate", "StudyTime", "SeriesInstanceUID"}

\* the tag records ingested images carry (dicom_tags, keyword -> value)
PatientIDs == {"P1", "P2"}
StudyDates == {"20200101"}
StudyTimes == {"101010", Absent}
SeriesUIDs == {"S1", Absent}

TagRecords ==
    {[k \in TagKeys |->
        CASE k = "PatientID" -> p
          [] k = "StudyDate" -> d
          [] k = "StudyTime" -> t
          [] OTHER -> s] :
     p \in PatientIDs, d \in StudyDates, t \in StudyTimes, s \in SeriesUIDs}

Collections == {"ImageMetadata", "RadiologicalSeries", "RadiologicalStudy", "Patient"}

\* model.py: ImageMetadata.from_dataset (series_id and study_id start unset)
NewImageMetadata(tags) ==
    [dicom_tags |-> tags, series_id |-> NoId, study_id |-> NoId]

RECURSIVE SortedSeq(_)
SortedSeq(S) ==
    IF S = {} THEN <<>>
    ELSE LET m == CHOOSE x \in S : \A y \in S : x <= y
         IN  <<m>> \o SortedSeq(S \ {m})

\* a $group that starts a proto-group at every document, where Groups
\* starts one at the first document of each key
GroupPerDocument(kseq, skip) ==
    LET order == SortedSeq({i \in DOMAIN kseq : kseq[i] \notin skip})
    IN  [n \in DOMAIN order |->
            [_id |-> kseq[order[n]],
             ids |-> SortedSeq({j \in DOMAIN kseq : kseq[j] = kseq[order[n]]})]]

\* MongoDB's $group with $push: one proto-group per distinct key, holding the
\* _ids of its documents in collection order; documents whose key is in skip
\* are left out ($match).  Groups come in the order of their first document.
Groups(kseq, skip) ==
    LET firsts == {i \in DOMAIN kseq :
                      /\ kseq[i] \notin skip
                      /\ \A j \in 1..(i - 1) : kseq[j] # kseq[i]}
        order == SortedSeq(firsts)
    IN  [n \in DOMAIN order |->
            [_id |-> kseq[order[n]],
             ids |-> SortedSeq({j \in DOMAIN kseq : kseq[j] = kseq[order[n]]})]]

\* stage_2_group_series.py: proto_series_generator
proto_series_generator ==
    Groups([i \in DOMAIN db.ImageMetadata |->
               db.ImageMetadata[i].dicom_tags["SeriesInstanceUID"]], {Absent})

\* stage_2_group_studies.py: proto_study_generator
proto_study_generator ==
    Groups([i \in DOMAIN db.ImageMetadata |->
               <<db.ImageMetadata[i].dicom_tags["PatientID"],
                 db.ImageMetadata[i].dicom_tags["StudyDate"]>>], {})

\* stage_2_group_patients.py: proto_patient_generator
proto_patient_generator ==
    Groups([i \in DOMAIN db.RadiologicalStudy |->
               db.RadiologicalStudy[i].dicom_tags["PatientID"]], {})

\* a tag's "Value": the list ["CT", "MR"] is written "CT,MR", every other
\* value is a single one
ListElements(v) == IF v = "CT,MR" THEN {"CT", "MR"} ELSE {v}

\* stage_2_group_studies.py: get_tag: set(v) of a list, set([v]) of a single
\* value, set() on KeyError
get_tag(d, keyword) ==
    IF d[keyword] = Absent THEN {} ELSE ListElements(d[keyword])

\* stage_2_group_studies.py: get_tag / set_union, as the set of values
\* (None when no record carries the keyword)
set_union(dicom_tags, keyword) ==
    LET values == UNION {get_tag(dicom_tags[i], keyword) : i \in DOMAIN dicom_tags}
    IN  IF values = {} THEN {None} ELSE values

\* model.py: RadiologicalSeries.from_dataset, then process_series' image_count
NewSeries(tags, n_images) ==
    [dicom_tags |-> tags,
     series_uid |-> tags["SeriesInstanceUID"],
     study_id |-> NoId,
     image_count |-> n_images]

\* model.py: RadiologicalStudy.from_dataset: date from StudyDate + StudyTime
StudyDateTime(tags) ==
    parse_DA_TM_as_datetime(
        IF tags["StudyDate"] = Absent THEN "00000000" ELSE tags["StudyDate"],
        IF tags["StudyTime"] = Absent THEN "000000" ELSE tags["StudyTime"])

\* stage_2_group_studies.py: group_study.  "None": from_dataset raised
\* ValueError, which group_study catches; "TypeError": len(None) for
\* series_count, which it does not.
group_study(images) ==
    LET dicom_tags == [i \in DOMAIN images |-> images[i].dicom_tags]
        intersection == intersect_dicts_allow_empty_minority(dicom_tags)
        date == StudyDateTime(intersection)
        uids == set_union(dicom_tags, "SeriesInstanceUID")
    IN  IF date = ValueError THEN [error |-> "None"]
        ELSE IF uids = {None} THEN [error |-> "TypeError"]
        ELSE [error |-> "ok",
              study |-> [dicom_tags |-> intersection,
                         date |-> date,
                         patient_id |-> NoId,
                         series_count |-> Cardinality(uids)]]

\* model.py: Patient.from_dataset; ds.PatientID raises AttributeError when the
\* consensus holds no PatientID
PatientFromDataset(tags) ==
    IF tags["PatientID"] = Absent THEN [error |-> "AttributeError"]
    ELSE [error |-> "ok", patient |-> [anon_id |-> tags["PatientID"]]]

----------------------------------------------------------------------------
(* The unique indexes and the store's primitives *)

\* the fields of create_index(..., unique=True) in each DAO's
\* _ensure_index_exists
IndexKey(kind, d) ==
    CASE kind = "Patient" -> <<d.anon_id>>
      [] kind = "RadiologicalStudy" -> <<d.dicom_tags["PatientID"], d.date>>
      [] kind = "RadiologicalSeries" -> <<d.series_uid, d.study_id>>

\* the filter of the DAO's lookup of an existing document: PatientDao.exists
\* (by anon_id), and the find_one after DuplicateKeyError in StudyDao.insert_one
\* (PatientID and date) and SeriesDao.insert_one (series_uid only)
QueryKey(kind, d) ==
    CASE kind = "Patient" -> <<d.anon_id>>
      [] kind = "RadiologicalStudy" -> <<d.dicom_tags["PatientID"], d.date>>
      [] kind = "RadiologicalSeries" -> <<d.series_uid>>

AnyDocument(kind, d) == DOMAIN db[kind]

\* the _ids a find by the DAO's lookup filter matches
Matches(kind, d) ==
    {i \in DOMAIN db[kind] : QueryKey(kind, db[kind][i]) = QueryKey(kind, d)}

\* writing d as document number i (a new one when i is past the end) would
\* give two documents one index key
Conflicts(kind, i, d) ==
    \E j \in DOMAIN db[kind] :
        j # i /\ IndexKey(kind, db[kind][j]) = IndexKey(kind, d)

\* the collection holds two documents with one index key
HasDuplicates(kind) ==
    \E i, j \in DOMAIN db[kind] :
        i # j /\ IndexKey(kind, db[kind][i]) = IndexKey(kind, db[kind][j])

----------------------------------------------------------------------------
(* Worker processes *)

Workers == {1, 2}
Stages == {"series", "study", "patient"}

\* batcher(..., 5) in main and main_multiproc of the three stages
BatchSize == 5

\* the collection a batch function's inserting DAO writes
KindOf(job) ==
    CASE job = "series" -> "RadiologicalSeries"
      [] job = "study" -> "RadiologicalStudy"
      [] OTHER -> "Patient"

\* runs: the batches of its current stage the worker has started; at: the
\* step an exception that ended the worker was raised in
\* pc: idle | fetch | exists | insert | requery | ensure_index | backfill |
\*     backfill_series | done
\* client: the MongoClient of the batch function's Connector: none | open |
\*     closed
IdleWorker ==
    [job |-> "idle", pc |-> "idle", kind |-> "Patient", skip |-> TRUE,
     groups |-> <<>>, batch |-> <<>>, children |-> <<>>, entity |-> <<>>,
     id |-> NoId, updated |-> {}, index_exists |-> FALSE, counter |-> 0,
     outcome |-> "none", error |-> "none", at |-> "none", before |-> <<>>,
     runs |-> 0, client |-> "none"]

Free(w) == worker[w].pc \in {"idle", "done"}

\* the batch loop goes on to its next proto-group
NextGroup(wr) ==
    [wr EXCEPT !.batch = Tail(@), !.pc = "fetch", !.children = <<>>,
               !.updated = {}]

\* insert_one returns _id to its caller: process_series and process_study_batch
\* go on to their backfill loop, process_patient_batch counts the group first
Returned(wr, id) ==
    CASE wr.job = "dao" ->
           [wr EXCEPT !.id = id, !.pc = "done", !.outcome = "returned"]
      [] wr.job = "patient" ->
           [wr EXCEPT !.id = id, !.pc = "backfill", !.counter = @ + 1]
      [] OTHER -> [wr EXCEPT !.id = id, !.pc = "backfill"]

\* an exception leaves the loop body: process_series_batch catches it, logs it,
\* counts the group and goes on; nothing else catches, so the other batch
\* functions and a direct call end with it
Raised(wr, err) ==
    IF wr.job = "series"
    THEN [NextGroup(wr) EXCEPT !.counter = @ + 1]
    ELSE [wr EXCEPT !.pc = "done", !.outcome = "raised", !.error = err,
                    !.at = wr.pc]

\* the step's writes; a batch function or a direct call that ended is logged
Commit(w, new, newdb) ==
    /\ worker' = [worker EXCEPT ![w] = new]
    /\ db' = newdb
    /\ history' =
         IF new.pc = "done" /\ new.job \in Stages
         THEN Append(history, [job |-> new.job, outcome |-> new.outcome,
                               error |-> new.error, counter |-> new.counter,
                               groups |-> new.groups, at |-> new.at,
                               batch |-> new.batch, db |-> newdb])
         ELSE history
    /\ calls' =
         IF new.pc = "done" /\ new.job = "dao"
         THEN Append(calls, [kind |-> new.kind, entity |-> new.entity,
                             skip |-> new.skip, outcome |-> new.outcome,
                             error |-> new.error, id |-> new.id,
                             before |-> new.before, after |-> newdb[new.kind]])
         ELSE calls

\* stage 1 (ingest_metadata): ImageMetadataDao.insert_one of a new image
Ingest(tags) ==
    /\ db' = [db EXCEPT !["ImageMetadata"] = Append(@, NewImageMetadata(tags))]
    /\ UNCHANGED <<unique_index, worker, history, calls, dicts, result, out, pool, frame>>

\* a run of one stage: the proto-groups are enumerated, batched, and the batch
\* function starts with DAOs of its own (Connector, then the DAOs' __init__)
StartBatch(w, job) ==
    /\ Free(w)
    /\ LET groups == CASE job = "series" -> proto_series_generator
                       [] job = "study" -> proto_study_generator
                       [] OTHER -> proto_patient_generator
       IN  /\ Len(groups) <= BatchSize
           /\ worker' = [worker EXCEPT ![w] =
                  [IdleWorker EXCEPT !.job = job, !.pc = "fetch", !.client = "open",
                                     !.kind = KindOf(job), !.groups = groups,
                                     !.batch = groups, !.outcome = "running",
                                     !.runs = IF worker[w].job = job
                                              THEN worker[w].runs + 1
                                              ELSE 1]]
    /\ UNCHANGED <<db, unique_index, history, calls, dicts, result, out, pool, frame>>

\* the end of the batch functions: process_series_batch calls
\* connector.client.close() after its loop, process_study_batch and
\* process_patient_batch have no such call
close(wr) == IF wr.job = "series" THEN "closed" ELSE wr.client

\* the batch loop is over: return counter
ReturnCounter(w) ==
    LET wr == worker[w]
    IN  /\ wr.job \in Stages /\ wr.pc = "fetch" /\ wr.batch = <<>>
        /\ Commit(w, [wr EXCEPT !.pc = "done", !.outcome = "returned",
                                !.client = close(wr)], db)
        /\ UNCHANGED <<unique_index, dicts, result, out, pool, frame>>

\* process_series up to its insert_one: the members' tags, their consensus, the
\* series entity
MaterializeSeries(w) ==
    LET wr == worker[w]
    IN  /\ wr.job = "series" /\ wr.pc = "fetch" /\ wr.batch # <<>>
        /\ LET ids == Head(wr.batch).ids
               dicom_tags == [n \in DOMAIN ids |->
                                 db.ImageMetadata[ids[n]].dicom_tags]
               series == NewSeries(
                   intersect_dicts_allow_empty_minority(dicom_tags), Len(ids))
           IN  Commit(w, [wr EXCEPT !.entity = series, !.children = ids,
                                    !.pc = "insert"], db)
        /\ UNCHANGED <<unique_index, dicts, result, out, pool, frame>>

\* process_study_batch up to its insert_one: the images (with the series_id each
\* has now), group_study, and "continue" when it returned None
MaterializeStudy(w) ==
    LET wr == worker[w]
    IN  /\ wr.job = "study" /\ wr.pc = "fetch" /\ wr.batch # <<>>
        /\ LET ids == Head(wr.batch).ids
               images == [n \in DOMAIN ids |-> db.ImageMetadata[ids[n]]]
               r == group_study(images)
           IN  Commit(w,
                  CASE r.error = "None" -> NextGroup(wr)
                    [] r.error = "TypeError" -> Raised(wr, "TypeError")
                    [] OTHER ->
                        [wr EXCEPT !.entity = r.study,
                                   !.children =
                                       [n \in DOMAIN ids |->
                                           [_id |-> ids[n],
                                            series_id |-> images[n].series_id]],
                                   !.updated = {},
                                   !.pc = "insert"],
                  db)
        /\ UNCHANGED <<unique_index, dicts, result, out, pool, frame>>

\* process_patient_batch up to its insert_one
MaterializePatient(w) ==
    LET wr == worker[w]
    IN  /\ wr.job = "patient" /\ wr.pc = "fetch" /\ wr.batch # <<>>
        /\ LET ids == Head(wr.batch).ids
               dicom_tags == [n \in DOMAIN ids |->
                                 db.RadiologicalStudy[ids[n]].dicom_tags]
               r == PatientFromDataset(
                        intersect_dicts_allow_empty_minority(dicom_tags))
           IN  Commit(w,
                  IF r.error = "ok"
                  THEN [wr EXCEPT !.entity = r.patient, !.children = ids,
                                  !.pc = "exists"]
                  ELSE Raised(wr, r.error),
                  db)
        /\ UNCHANGED <<unique_index, dicts, result, out, pool, frame>>

----------------------------------------------------------------------------
(* insert_one of PatientDao, StudyDao and SeriesDao, one store request a step *)

\* StudyDao.insert_one and SeriesDao.insert_one wrap the insert in
\* try/except DuplicateKeyError when skip_duplicates; PatientDao.insert_one
\* has no try
CatchesDuplicate(wr) ==
    wr.skip /\ wr.kind \in {"RadiologicalStudy", "RadiologicalSeries"}

\* PatientDao.exists, called when skip_duplicates: an existing patient's _id is
\* returned at once (and _ensure_index_exists is not reached)
Exists(w) ==
    LET wr == worker[w]
        found == Matches(wr.kind, wr.entity)
    IN  /\ wr.pc = "exists"
        /\ IF found = {}
           THEN Commit(w, [wr EXCEPT !.pc = "insert"], db)
           ELSE \E i \in found : Commit(w, Returned(wr, i), db)
        /\ UNCHANGED <<unique_index, dicts, result, out, pool, frame>>

\* self.collection.insert_one(entity.to_dict())
InsertOne(w) ==
    LET wr == worker[w]
        k == wr.kind
        new_id == Len(db[k]) + 1
    IN  /\ wr.pc = "insert"
        /\ IF k \in unique_index /\ Conflicts(k, new_id, wr.entity)
           THEN Commit(w, IF CatchesDuplicate(wr)
                          THEN [wr EXCEPT !.pc = "requery"]
                          ELSE Raised(wr, "DuplicateKeyError"), db)
           ELSE Commit(w, [wr EXCEPT !.id = new_id, !.pc = "ensure_index"],
                       [db EXCEPT ![k] = Append(@, wr.entity)])
        /\ UNCHANGED <<unique_index, dicts, result, out, pool, frame>>

\* except DuplicateKeyError: _id = self.collection.find_one({...})["_id"]
Requery(w) ==
    LET wr == worker[w]
    IN  /\ wr.pc = "requery"
        /\ \E i \in Matches(wr.kind, wr.entity) :
               Commit(w, [wr EXCEPT !.id = i, !.pc = "ensure_index"], db)
        /\ UNCHANGED <<unique_index, dicts, result, out, pool, frame>>

CreateIndexNotUnique(kind) == unique_index

\* collection.create_index(..., unique=True) on a collection without duplicates
CreateIndex(kind) == unique_index \cup {kind}

\* _ensure_index_exists, then return _id
EnsureIndex(w) ==
    LET wr == worker[w]
    IN  /\ wr.pc = "ensure_index"
        /\ IF wr.index_exists
           THEN /\ Commit(w, Returned(wr, wr.id), db)
                /\ UNCHANGED unique_index
           ELSE IF wr.kind \notin unique_index /\ HasDuplicates(wr.kind)
           THEN /\ Commit(w, Raised(wr, "DuplicateKeyError"), db)
                /\ UNCHANGED unique_index
           ELSE /\ Commit(w, Returned([wr EXCEPT !.index_exists = TRUE], wr.id),
                          db)
                /\ unique_index' = CreateIndex(wr.kind)
        /\ UNCHANGED <<dicts, result, out, pool, frame>>

----------------------------------------------------------------------------
(* The backfill loops *)

\* the loop over the group's children moves on; after the last child the group
\* is done (process_series_batch and process_study_batch count it here)
Advance(wr) ==
    IF Len(wr.children) > 1
    THEN [wr EXCEPT !.children = Tail(@)]
    ELSE IF wr.job = "patient" THEN NextGroup(wr)
    ELSE [NextGroup(wr) EXCEPT !.counter = @ + 1]

\* process_series: im_dao.update_series_id(i, series_id)
update_series_id(w) ==
    LET wr == worker[w]
    IN  /\ wr.job = "series" /\ wr.pc = "backfill"
        /\ Commit(w, Advance(wr),
                  [db EXCEPT !["ImageMetadata"][Head(wr.children)].series_id =
                                 wr.id])
        /\ UNCHANGED <<unique_index, dicts, result, out, pool, frame>>

\* process_study_batch: im_dao.update_study_id(i["_id"], study_id), then the
\* test "series_id and series_id not in updated_series"
update_study_id(w) ==
    LET wr == worker[w]
        i == Head(wr.children)
    IN  /\ wr.job = "study" /\ wr.pc = "backfill"
        /\ Commit(w,
                  IF i.series_id # NoId /\ i.series_id \notin wr.updated
                  THEN [wr EXCEPT !.pc = "backfill_series"]
                  ELSE Advance(wr),
                  [db EXCEPT !["ImageMetadata"][i._id].study_id = wr.id])
        /\ UNCHANGED <<unique_index, dicts, result, out, pool, frame>>

\* process_study_batch: series_dao.update_study_id(series_id, study_id) and
\* updated_series.add(series_id); the update writes a field of the series
\* collection's unique index
series_update_study_id(w) ==
    LET wr == worker[w]
        sid == Head(wr.children).series_id
        doc == [db.RadiologicalSeries[sid] EXCEPT !.study_id = wr.id]
    IN  /\ wr.job = "study" /\ wr.pc = "backfill_series"
        /\ IF /\ "RadiologicalSeries" \in unique_index
              /\ Conflicts("RadiologicalSeries", sid, doc)
           THEN Commit(w, Raised(wr, "DuplicateKeyError"), db)
           ELSE Commit(w,
                       Advance([wr EXCEPT !.updated = @ \cup {sid},
                                          !.pc = "backfill"]),
                       [db EXCEPT !["RadiologicalSeries"][sid] = doc])
        /\ UNCHANGED <<unique_index, dicts, result, out, pool, frame>>

\* process_patient_batch: study_dao.update_patient_id(study["_id"], patient_id)
update_patient_id(w) ==
    LET wr == worker[w]
    IN  /\ wr.job = "patient" /\ wr.pc = "backfill"
        /\ Commit(w, Advance(wr),
                  [db EXCEPT !["RadiologicalStudy"][Head(wr.children)].patient_id =
                                 wr.id])
        /\ UNCHANGED <<unique_index, dicts, result, out, pool, frame>>

\* the worker process stops where it is (killed, or the backend is lost)
Stop(w) ==
    LET wr == worker[w]
    IN  /\ wr.job \in Stages /\ ~Free(w)
        /\ Commit(w, [wr EXCEPT !.pc = "done", !.outcome = "stopped",
                                 !.at = wr.pc], db)
        /\ UNCHANGED <<unique_index, dicts, result, out, pool, frame>>

----------------------------------------------------------------------------
(* Direct calls of insert_one *)

PatientEntities == {[anon_id |-> p] : p \in PatientIDs}
StudyEntities ==
    {group_study(<<NewImageMetadata(t)>>).study :
        t \in {x \in TagRecords : x["SeriesInstanceUID"] # Absent}}
SeriesEntities ==
    {[NewSeries(t, 1) EXCEPT !.study_id = s] :
        t \in {x \in TagRecords : x["SeriesInstanceUID"] # Absent},
        s \in {NoId, 1}}

EntitiesOf(kind) ==
    CASE kind = "Patient" -> PatientEntities
      [] kind = "RadiologicalStudy" -> StudyEntities
      [] OTHER -> SeriesEntities

\* dao.insert_one(entity, skip_duplicates=skip) called by a client; only
\* PatientDao.insert_one starts with the existence check
CallInsertOne(w, kind, entity, skip) ==
    /\ Free(w)
    /\ worker' = [worker EXCEPT ![w] =
           [IdleWorker EXCEPT !.job = "dao", !.kind = kind, !.entity = entity,
                              !.skip = skip, !.outcome = "running",
                              !.before = db[kind],
                              !.pc = IF kind = "Patient" /\ skip
                                     THEN "exists" ELSE "insert"]]
    /\ UNCHANGED <<db, unique_index, history, calls, dicts, result, out, pool, frame>>

----------------------------------------------------------------------------
(* Specifications *)

EmptyDb == [c \in Collections |-> <<>>]

\* no main_multiproc is running.  first: the batch results that were there
\* when the run started; collected: the results of this run the loop over
\* imap_unordered has taken; total: the progress bar; seen: the results that
\* had arrived when a batch's exception left the loop; runs: the stage runs
\* started so far
IdlePool ==
    [job |-> "idle", queue |-> <<>>, first |-> 0, collected |-> 0, total |-> 0,
     outcome |-> "idle", seen |-> 0, runs |-> 0]

\* no function is called on its own
NoFrame == [fn |-> "none"]

\* no index, no worker at work, no run, no DAO call, no pool
IdlePipeline ==
    /\ unique_index = {}
    /\ worker = [w \in Workers |-> IdleWorker]
    /\ history = <<>>
    /\ calls = <<>>
    /\ pool = IdlePool

InitStore ==
    /\ IdlePipeline
    /\ frame = NoFrame

\* the ImageMetadata collection after stage 1 ingested 1..n images
ImageSeqs(n) ==
    UNION {[1..m -> {NewImageMetadata(t) : t \in TagRecords}] : m \in 1..n}

NoConsensusRun ==
    /\ dicts = <<>>
    /\ result = <<>>
    /\ out = <<>>

\* one worker's steps inside the batch functions of the three stages
StageStep(w) ==
    \/ ReturnCounter(w)
    \/ MaterializeSeries(w)
    \/ MaterializeStudy(w)
    \/ MaterializePatient(w)
    \/ Exists(w)
    \/ InsertOne(w)
    \/ Requery(w)
    \/ EnsureIndex(w)
    \/ update_series_id(w)
    \/ update_study_id(w)
    \/ series_update_study_id(w)
    \/ update_patient_id(w)

\* Spec: sequential runs over a fixed ImageMetadata collection (the stages'
\* main with n_proc == 1), any stage in any order, each run to its end
Init ==
    /\ InitStore
    /\ \E images \in ImageSeqs(MaxImages) :
           db = [EmptyDb EXCEPT !["ImageMetadata"] = images]
    /\ NoConsensusRun

Next ==
    \/ \E job \in Stages :
          /\ Len(history) < MaxRuns
          /\ StartBatch(1, job)
    \/ StageStep(1)

Spec == Init /\ [][Next]_vars

----------------------------------------------------------------------------
(* Properties of the sequential runs *)

\* the back-references a stage writes, as they stand in store d
BackRefs(job, d) ==
    CASE job = "series" ->
           <<[i \in DOMAIN d.ImageMetadata |-> d.ImageMetadata[i].series_id]>>
      [] job = "study" ->
           <<[i \in DOMAIN d.ImageMetadata |-> d.ImageMetadata[i].study_id],
             [i \in DOMAIN d.RadiologicalSeries |->
                 d.RadiologicalSeries[i].study_id]>>
      [] OTHER ->
           <<[i \in DOMAIN d.RadiologicalStudy |->
                 d.RadiologicalStudy[i].patient_id]>>

\* run i is the second run of its stage and directly follows the first, and
\* both ran to their end
SecondRunDirectlyAfterFirst(i) ==
    /\ i >= 2
    /\ history[i].job = history[i - 1].job
    /\ history[i].outcome = "returned"
    /\ history[i - 1].outcome = "returned"
    /\ \A j \in 1..(i - 2) : history[j].job # history[i].job

----------------------------------------------------------------------------
(* SpecRace: overlapping runs.  The stages follow each other as in            *)
(* stage_2.main (a stage starts when the one before has ended), and a stage  *)
(* may be run by both workers at once, each with its own enumeration of the  *)
(* proto-groups (main_multiproc's pool workers, or a run started while       *)
(* another is still going).                                                  *)

Rank(job) ==
    CASE job = "series" -> 1
      [] job = "study" -> 2
      [] job = "patient" -> 3
      [] OTHER -> 0

CanStartRace(w, job) ==
    /\ \A v \in Workers :
          /\ Rank(worker[v].job) <= Rank(job)
          /\ Rank(worker[v].job) < Rank(job) => Free(v)
    /\ worker[w].job = job => worker[w].runs < RaceRuns

InitRace ==
    /\ InitStore
    /\ \E images \in ImageSeqs(RaceImages) :
           db = [EmptyDb EXCEPT !["ImageMetadata"] = images]
    /\ NoConsensusRun

NextRace ==
    \/ \E w \in Workers, job \in Stages :
          /\ CanStartRace(w, job)
          /\ StartBatch(w, job)
    \/ \E w \in Workers : StageStep(w)

SpecRace == InitRace /\ [][NextRace]_vars

\* the (PatientID, StudyDate) grouping key of a study document
StudyKey(d) == <<d.dicom_tags["PatientID"], d.dicom_tags["StudyDate"]>>

\* both workers have left process_study_batch, none of them through a
\* proto-group that could not be materialized
BothStudyBatchesEnded ==
    \A w \in Workers :
        /\ worker[w].job = "study"
        /\ worker[w].pc = "done"
        /\ worker[w].error # "TypeError"

\* C1: after two workers ran process_study_batch on batches that both hold a
\* proto-group of one (PatientID, StudyDate) key, exactly one RadiologicalStudy
\* document has that key and every image of both groups has its id as study_id.
C1_OneStudyAfterConcurrentBatches ==
    BothStudyBatchesEnded =>
        \A g1 \in DOMAIN worker[1].groups, g2 \in DOMAIN worker[2].groups :
            worker[1].groups[g1]._id = worker[2].groups[g2]._id =>
                \E s \in DOMAIN db.RadiologicalStudy :
                    /\ StudyKey(db.RadiologicalStudy[s]) = worker[1].groups[g1]._id
                    /\ \A t \in DOMAIN db.RadiologicalStudy :
                          StudyKey(db.RadiologicalStudy[t]) =
                              worker[1].groups[g1]._id => t = s
                    /\ \A n \in DOMAIN worker[1].groups[g1].ids :
                          db.ImageMetadata[worker[1].groups[g1].ids[n]].study_id = s
                    /\ \A n \in DOMAIN worker[2].groups[g2].ids :
                          db.ImageMetadata[worker[2].groups[g2].ids[n]].study_id = s

\* C4: in every state of concurrent Patient-stage workers the Patient
\* collection holds at most one document per anon_id.
C4_OnePatientPerAnonId ==
    \A i, j \in DOMAIN db.Patient :
        db.Patient[i].anon_id = db.Patient[j].anon_id => i = j

\* C3: with skip_duplicates (the default the batch functions use), insert_one
\* does not end in DuplicateKeyError when its insert meets a document with the
\* entity's key: it returns that document's id.
C3_InsertOneNeverRaisesDuplicateKey ==
    \A w \in Workers :
        ~(/\ worker[w].skip
          /\ worker[w].outcome = "raised"
          /\ worker[w].error = "DuplicateKeyError"
          /\ worker[w].at = "insert")

----------------------------------------------------------------------------
(* SpecOps: sequential runs of any stage in any order, with ingestion of     *)
(* further images between runs, and a worker that may stop inside a run      *)
(* (the stage is then run again).                                            *)

Stopped == {i \in DOMAIN history : history[i].outcome = "stopped"}

InitOps ==
    /\ InitStore
    /\ \E images \in ImageSeqs(1) : db = [EmptyDb EXCEPT !.ImageMetadata = images]
    /\ NoConsensusRun

NextOps ==
    \/ \E tags \in TagRecords :
          /\ Len(db.ImageMetadata) < OpsImages
          /\ Free(1)
          /\ Ingest(tags)
    \/ \E job \in Stages :
          /\ Len(history) < OpsRuns
          /\ StartBatch(1, job)
    \/ StageStep(1)
    \/ /\ Cardinality(Stopped) < MaxStops
       /\ Stop(1)

SpecOps == InitOps /\ [][NextOps]_vars

\* C5: whatever Study-stage runs and ingestions came before (no run was
\* stopped), the RadiologicalStudy collection holds at most one document per
\* (PatientID, StudyDate) grouping key.
C5_OneStudyPerPatientAndDate ==
    (Stopped = {} /\ worker[1].outcome # "stopped") =>
        \A i, j \in DOMAIN db.RadiologicalStudy :
            StudyKey(db.RadiologicalStudy[i]) = StudyKey(db.RadiologicalStudy[j])
                => i = j

\* the pipeline of stage_2.main ran to its end, and run i belongs to a second
\* pass over the same images that has got as far as run i
SecondPipelinePass(i) ==
    /\ i \in 4..6
    /\ Len(history) >= i
    /\ \A j \in 1..i :
          /\ history[j].outcome = "returned"
          /\ history[j].job =
               <<"series", "study", "patient", "series", "study", "patient">>[j]
          /\ Len(history[j].db.ImageMetadata) = Len(history[1].db.ImageMetadata)
    /\ history[1].groups # <<>>

\* C8: a second pass of the pipeline (Series, Study, Patient) over the same
\* images leaves the number of series, study and patient documents and every
\* back-reference as the first pass left them.
C8_SecondPipelinePassChangesNothing ==
    \A i \in 4..6 :
        SecondPipelinePass(i) =>
            /\ \A c \in Collections :
                  Len(history[i].db[c]) = Len(history[3].db[c])
            /\ \A job \in Stages :
                  BackRefs(job, history[i].db) = BackRefs(job, history[3].db)

\* the key a generator groups by, read from a parent document
GroupingKey(kind, d) ==
    CASE kind = "RadiologicalSeries" -> d.series_uid
      [] kind = "RadiologicalStudy" -> StudyKey(d)
      [] OTHER -> d.anon_id

\* the grouping key of a stage's parent document
ParentKey(job, d) == GroupingKey(KindOf(job), d)

\* the back-reference of child n of a stage in store d
BackRef(job, d, n) ==
    CASE job = "series" -> d.ImageMetadata[n].series_id
      [] job = "study" -> d.ImageMetadata[n].study_id
      [] OTHER -> d.RadiologicalStudy[n].patient_id

\* run i - 1 stopped after the insert of its current group's parent, and run i
\* is the same stage run again, over the same children, to its end (its
\* return, or the DuplicateKeyError it ends with)
RerunAfterStop(i) ==
    /\ i >= 2
    /\ history[i - 1].outcome = "stopped"
    /\ history[i - 1].at \in {"ensure_index", "backfill", "backfill_series"}
    /\ history[i].job = history[i - 1].job
    /\ history[i].groups = history[i - 1].groups
    /\ \/ history[i].outcome = "returned"
       \/ history[i].outcome = "raised" /\ history[i].error = "DuplicateKeyError"

\* C9: when a worker stopped between its group's parent insert and the end of
\* the group's backfill, the stage run again to its end leaves exactly one
\* parent document with the group's key and every child of the group linked to it.
C9_RerunAfterStopConverges ==
    \A i \in DOMAIN history :
        RerunAfterStop(i) =>
            LET job == history[i].job
                g == Head(history[i - 1].batch)
                d == history[i].db
                parents == {p \in DOMAIN d[KindOf(job)] :
                               ParentKey(job, d[KindOf(job)][p]) = g._id}
            IN  /\ Cardinality(parents) = 1
                /\ \A n \in DOMAIN g.ids :
                      BackRef(job, d, g.ids[n]) \in parents

----------------------------------------------------------------------------
(* SpecDao: a client calls insert_one of the three DAOs directly, one call   *)
(* after the other, on a database that starts empty.                         *)

InitDao ==
    /\ InitStore
    /\ db = EmptyDb
    /\ NoConsensusRun

NextDao ==
    \/ \E kind \in {"Patient", "RadiologicalStudy", "RadiologicalSeries"} :
         \E entity \in EntitiesOf(kind), skip \in BOOLEAN :
            /\ Len(calls) < MaxCalls
            /\ CallInsertOne(1, kind, entity, skip)
    \/ Exists(1)
    \/ InsertOne(1)
    \/ Requery(1)
    \/ EnsureIndex(1)

SpecDao == InitDao /\ [][NextDao]_vars

\* C2: two insert_one calls in sequence (skip_duplicates at its default) with
\* entities of equal grouping key return the same id, and the collection then
\* holds exactly one document with that grouping key.
C2_InsertOneTwiceSameId ==
    \A j \in DOMAIN calls :
        LET a == calls[j - 1]
            b == calls[j]
        IN  (/\ j >= 2
             /\ a.kind = b.kind
             /\ a.skip /\ b.skip
             /\ GroupingKey(a.kind, a.entity) = GroupingKey(b.kind, b.entity))
            =>
            /\ a.outcome = "returned" /\ b.outcome = "returned"
            /\ a.id = b.id
            /\ Cardinality({n \in DOMAIN b.after :
                   GroupingKey(b.kind, b.after[n]) = GroupingKey(b.kind, b.entity)}) = 1

\* C6: insert_one with skip_duplicates=False for an entity whose grouping key
\* is already stored ends with DuplicateKeyError and leaves the collection's
\* documents as they were.
C6_NoSkipRaisesOnExistingKey ==
    \A j \in DOMAIN calls :
        LET c == calls[j]
        IN  (/\ ~c.skip
             /\ \E n \in DOMAIN c.before :
                   GroupingKey(c.kind, c.before[n]) = GroupingKey(c.kind, c.entity))
            =>
            /\ c.outcome = "raised"
            /\ c.error = "DuplicateKeyError"
            /\ c.after = c.before

----------------------------------------------------------------------------
(* SpecConsensus: intersect_dicts_allow_empty_minority applied to a list of  *)
(* records. A value is an int ("i1", "i2"), a str ("s1", whose string form   *)
(* is that of "i1"), None, or the key is absent from the record.             *)

ConsensusKeys == {"a", "b"}
ConsensusValues == {Absent, None, "i1", "s1", "i2"}

DictLists ==
    UNION {[1..n -> [ConsensusKeys -> ConsensusValues]] : n \in 1..MaxDicts}

InitConsensus ==
    /\ InitStore
    /\ db = EmptyDb
    /\ dicts \in DictLists
    /\ result = <<>>
    /\ out = <<>>

Consensus ==
    /\ result = <<>>
    /\ result' = <<intersect_dicts_allow_empty_minority(dicts)>>
    /\ UNCHANGED <<db, unique_index, worker, history, calls, dicts, out, pool, frame>>

NextConsensus == Consensus

SpecConsensus == InitConsensus /\ [][NextConsensus]_vars

\* the records in which key k is present with a value other than None
PresentIn(k) == {i \in DOMAIN dicts : dicts[i][k] \notin {Absent, None}}

\* C10: a key is kept exactly when it is present with a non-None value in at
\* least floor(n/2)+1 of the n records and those values are equal in string
\* form; the kept value is one of those agreeing values.
C10_KeptIffStrictMajorityAgrees ==
    result # <<>> =>
        \A k \in ConsensusKeys :
            LET n == Len(dicts)
                present == PresentIn(k)
                agree == \A i, j \in present : Str(dicts[i][k]) = Str(dicts[j][k])
                kept == result[1][k] # Absent
            IN  /\ kept <=> (Cardinality(present) >= (n \div 2) + 1 /\ agree)
                /\ kept => \E i \in present : result[1][k] = dicts[i][k]

\* a key present, with agreeing values, in exactly half of an even number of
\* records has been dropped
C10_Witness ==
    /\ result # <<>>
    /\ Len(dicts) = 2
    /\ \E k \in ConsensusKeys :
          /\ Cardinality(PresentIn(k)) = 1
          /\ result[1][k] = Absent
    /\ \E k \in ConsensusKeys :
          /\ dicts[1][k] = "i1" /\ dicts[2][k] = "s1"
          /\ result[1][k] = "i1"

----------------------------------------------------------------------------
(* SpecUtils: the two intersections applied to one list of records, and     *)
(* intersect_dicts_allow_empty_minority applied to the list in another      *)
(* order.                                                                    *)

\* dicts in the order p
Permuted(p) == [i \in DOMAIN dicts |-> dicts[p[i]]]

ConsensusOfPermutation ==
    /\ out = <<>>
    /\ \E p \in Permutations(DOMAIN dicts) :
          out' = <<[fn |-> "permuted",
                    value |-> intersect_dicts_allow_empty_minority(dicts),
                    permuted |-> intersect_dicts_allow_empty_minority(Permuted(p))]>>
    /\ UNCHANGED <<db, unique_index, worker, history, calls, dicts, result, pool, frame>>

IntersectDicts ==
    /\ out = <<>>
    /\ out' = <<[fn |-> "intersect_dicts",
                 value |-> intersect_dicts(dicts),
                 majority |-> intersect_dicts_allow_empty_minority(dicts)]>>
    /\ UNCHANGED <<db, unique_index, worker, history, calls, dicts, result, pool, frame>>

NextUtils == ConsensusOfPermutation \/ IntersectDicts

SpecUtils == InitConsensus /\ [][NextUtils]_vars

\* C11: intersect_dicts_allow_empty_minority gives the same keys with the
\* same values for every order of the records.
C11_ConsensusOrderIndependent ==
    (out # <<>> /\ out[1].fn = "permuted") => out[1].permuted = out[1].value

\* C12: every key intersect_dicts keeps is kept, with the same value, by
\* intersect_dicts_allow_empty_minority.
C12_StrictWithinMajority ==
    (out # <<>> /\ out[1].fn = "intersect_dicts") =>
        \A k \in ConsensusKeys :
            out[1].value[k] # Absent => out[1].majority[k] = out[1].value[k]

\* C13: intersect_dicts keeps a key exactly when every record holds it with a
\* value other than None and all those values are equal in string form.
C13_StrictKeepsIffAllAgree ==
    (out # <<>> /\ out[1].fn = "intersect_dicts") =>
        \A k \in ConsensusKeys :
            out[1].value[k] # Absent <=>
                /\ \A i \in DOMAIN dicts : dicts[i][k] \notin {Absent, None}
                /\ \A i, j \in DOMAIN dicts : Str(dicts[i][k]) = Str(dicts[j][k])

----------------------------------------------------------------------------
(* SpecGroupTags: the tags of the images of one series, brought together by *)
(* the consensus (process_series) and by set_union (group_study).           *)

GroupTagRecords ==
    {[k \in {"SeriesInstanceUID", "Modality"} |->
         IF k = "SeriesInstanceUID" THEN "S1" ELSE m] :
     m \in {"MR", "CT", "CT,MR", Absent}}

InitGroupTags ==
    /\ InitStore
    /\ db = EmptyDb
    /\ dicts \in UNION {[1..n -> GroupTagRecords] : n \in 1..MaxGroup}
    /\ result = <<>>
    /\ out = <<>>

\* the lists list(values) can be: a Python set has no promised order
ListsOf(values) ==
    {l \in [1..Cardinality(values) -> values] :
        \A i, j \in DOMAIN l : l[i] = l[j] => i = j}

SetUnion ==
    /\ out = <<>>
    /\ LET values == set_union(dicts, "Modality")
       IN  IF values = {None}
           THEN out' = <<[fn |-> "set_union", is_none |-> TRUE, value |-> <<>>]>>
           ELSE \E l \in ListsOf(values) :
                   out' = <<[fn |-> "set_union", is_none |-> FALSE, value |-> l]>>
    /\ UNCHANGED <<db, unique_index, worker, history, calls, dicts, result, pool, frame>>

NextGroupTags == Consensus \/ SetUnion

SpecGroupTags == InitGroupTags /\ [][NextGroupTags]_vars

\* the images of the group that report Modality m
Reporting(m) == {i \in DOMAIN dicts : dicts[i]["Modality"] = m}

\* C14: for three images of one series, two reporting Modality MR and one
\* CT, the consensus of the group holds Modality MR.
C14_MajorityModalityKept ==
    (/\ result # <<>>
     /\ Len(dicts) = 3
     /\ Cardinality(Reporting("MR")) = 2
     /\ Cardinality(Reporting("CT")) = 1)
    => result[1]["Modality"] = "MR"

\* the place of a Modality value in sorted order
SortRank(v) == IF v = "CT" THEN 1 ELSE 2

\* C15: set_union returns None when no record carries the keyword, and
\* otherwise a list holding every value of the records (the elements of a
\* list-valued field) exactly once, in sorted order.
C15_SetUnionSortedList ==
    (out # <<>> /\ out[1].fn = "set_union") =>
        LET carried == UNION {get_tag(dicts[i], "Modality") : i \in DOMAIN dicts}
            l == out[1].value
        IN  /\ out[1].is_none <=> carried = {}
            /\ ~out[1].is_none =>
                  /\ {l[i] : i \in DOMAIN l} = carried
                  /\ \A i, j \in DOMAIN l : l[i] = l[j] => i = j
                  /\ \A i, j \in DOMAIN l : i < j => SortRank(l[i]) < SortRank(l[j])

----------------------------------------------------------------------------
(* SpecFaults: the stages in the order of stage_2.main with n_proc = 1     *)
(* (Series, Study, Patient; a stage may be run again before the next one),  *)
(* over images whose tags may lack the patient identifier, the study date,  *)
(* the study time or the series identifier.                                  *)

FaultTagRecords ==
    {[k \in TagKeys |->
        CASE k = "PatientID" -> p
          [] k = "StudyDate" -> d
          [] k = "StudyTime" -> t
          [] OTHER -> s] :
     p \in {"P1", Absent}, d \in {"20200101", Absent},
     t \in {"101010", Absent}, s \in {"S1", Absent}}

InitFaults ==
    /\ InitStore
    /\ \E images \in UNION {[1..m -> {NewImageMetadata(t) : t \in FaultTagRecords}] :
                               m \in 1..FaultImages} :
           db = [EmptyDb EXCEPT !["ImageMetadata"] = images]
    /\ NoConsensusRun

NextFaults ==
    \/ \E job \in Stages :
          /\ Len(history) < FaultRuns
          /\ Rank(job) - Rank(worker[1].job) \in {0, 1}
          /\ StartBatch(1, job)
    \/ StageStep(1)

SpecFaults == InitFaults /\ [][NextFaults]_vars

\* C16: no batch function ends with an exception raised while it materialized
\* a proto-group: the failure stays with the group and the batch returns.
C16_MaterializeFailureStaysLocal ==
    \A i \in DOMAIN history :
        ~(history[i].outcome = "raised" /\ history[i].at = "fetch")

\* the proto-groups of run i whose parent is in the store when the run ends
PersistedGroups(i) ==
    {g \in DOMAIN history[i].groups :
        \E n \in DOMAIN history[i].db[KindOf(history[i].job)] :
            ParentKey(history[i].job, history[i].db[KindOf(history[i].job)][n])
                = history[i].groups[g]._id}

\* C17: what a batch function returns tells the number of proto-groups of the
\* batch (groups_seen) and the number of groups whose parent was persisted
\* (groups_persisted).  The batch functions return one number, the counter,
\* which is read here as both components.
C17_ReturnsSeenAndPersisted ==
    \A i \in DOMAIN history :
        history[i].outcome = "returned" =>
            /\ history[i].counter = Len(history[i].groups)
            /\ history[i].counter = Cardinality(PersistedGroups(i))

----------------------------------------------------------------------------
(* The order of a group's steps, in overlapping runs (SpecRace) *)

\* child n of proto-group g of a stage: an image of the group, for the Study
\* stage also the series of an image of the group, for the Patient stage a
\* study of the group
ChildOf(field, g, n) ==
    IF field = "series.study_id"
    THEN \E m \in DOMAIN g.ids : db.ImageMetadata[g.ids[m]].series_id = n
    ELSE \E m \in DOMAIN g.ids : g.ids[m] = n

\* a write of v to a back-reference of child n is the backfill of a worker
\* whose insert_one returned v for the proto-group it is at, v being a stored
\* parent with the group's key
Backfill(job, field, n, v) ==
    \E w \in Workers :
        LET wr == worker[w]
            kind == KindOf(job)
        IN  /\ wr.job = job
            /\ wr.pc \in {"backfill", "backfill_series"}
            /\ wr.batch # <<>>
            /\ wr.id = v
            /\ v \in DOMAIN db[kind]
            /\ GroupingKey(kind, db[kind][v]) = Head(wr.batch)._id
            /\ ChildOf(field, Head(wr.batch), n)

\* C20: a back-reference is written only for a proto-group whose parent has
\* been persisted before, by the worker insert_one returned the parent's id
\* to, and the value written is that id; a group whose materialize or persist
\* step failed has no worker in its backfill, so none of its children is linked.
C20_BackfillAfterPersist ==
    [][/\ \A n \in DOMAIN db.ImageMetadata :
            /\ db'.ImageMetadata[n].series_id # db.ImageMetadata[n].series_id =>
                  Backfill("series", "image.series_id", n,
                           db'.ImageMetadata[n].series_id)
            /\ db'.ImageMetadata[n].study_id # db.ImageMetadata[n].study_id =>
                  Backfill("study", "image.study_id", n,
                           db'.ImageMetadata[n].study_id)
       /\ \A n \in DOMAIN db.RadiologicalSeries :
            db'.RadiologicalSeries[n].study_id # db.RadiologicalSeries[n].study_id =>
                Backfill("study", "series.study_id", n,
                         db'.RadiologicalSeries[n].study_id)
       /\ \A n \in DOMAIN db.RadiologicalStudy :
            db'.RadiologicalStudy[n].patient_id # db.RadiologicalStudy[n].patient_id =>
                Backfill("patient", "study.patient_id", n,
                         db'.RadiologicalStudy[n].patient_id)]_vars

\* one Patient-stage worker's persist step failed and its batch function
\* ended with no study linked by it; the other worker's insert_one returned
\* and it back-linked the studies of the group
C20_Witness ==
    \E w, v \in Workers :
        /\ worker[w].job = "patient" /\ worker[v].job = "patient"
        /\ worker[w].outcome = "raised"
        /\ worker[w].at = "insert"
        /\ worker[v].outcome = "returned"
        /\ \A n \in DOMAIN db.RadiologicalStudy :
              /\ db.RadiologicalStudy[n].patient_id # NoId
              /\ db.RadiologicalStudy[n].patient_id \in DOMAIN db.Patient

----------------------------------------------------------------------------
(* SpecPool: the stages run by main_multiproc, in the order of stage_2.main *)
(* with n_proc > 1 (a stage may be run again before the next one).  The     *)
(* coordinator enumerates the proto-groups, batcher cuts them into batches   *)
(* of BatchSize, the pool's workers take the batches, and the loop over      *)
(* imap_unordered takes the results in the order the batches end.  Six       *)
(* images of six patients make two batches of proto-studies.                 *)

\* scripts/utils.py: batcher
RECURSIVE batcher(_, _)
batcher(iterable, batch_size) ==
    IF iterable = <<>> THEN <<>>
    ELSE IF Len(iterable) <= batch_size THEN <<iterable>>
    ELSE <<SubSeq(iterable, 1, batch_size)>>
         \o batcher(SubSeq(iterable, batch_size + 1, Len(iterable)), batch_size)

\* the proto-group generator of a stage
Enumerate(job) ==
    CASE job = "series" -> proto_series_generator
      [] job = "study" -> proto_study_generator
      [] OTHER -> proto_patient_generator

PoolPatientIDs == <<"P1", "P2", "P3", "P4", "P5", "P6">>

\* image n belongs to patient n; the first image may carry no series
\* identifier, and the last image may share the first one's
PoolImageSeqs ==
    {[n \in DOMAIN PoolPatientIDs |->
         NewImageMetadata(
             [k \in TagKeys |->
                 CASE k = "PatientID" -> PoolPatientIDs[n]
                   [] k = "StudyDate" -> "20200101"
                   [] k = "StudyTime" -> Absent
                   [] OTHER -> IF n = 1 THEN s1
                               ELSE IF n = Len(PoolPatientIDs) THEN s6
                               ELSE "S2"])] :
     s1 \in {"S1", Absent}, s6 \in {"S1", "S2"}}

InitPool ==
    /\ InitStore
    /\ \E images \in PoolImageSeqs :
           db = [EmptyDb EXCEPT !["ImageMetadata"] = images]
    /\ NoConsensusRun

\* main_multiproc: Pool(n_proc), the generator, batcher(..., 5)
PoolStart(job) ==
    /\ pool.outcome \in {"idle", "returned"}
    /\ Rank(job) - Rank(pool.job) \in {0, 1}
    /\ pool.runs < PoolRuns
    /\ \A w \in Workers : Free(w)
    /\ pool' = [IdlePool EXCEPT !.job = job,
                                !.queue = batcher(Enumerate(job), BatchSize),
                                !.first = Len(history),
                                !.outcome = "running",
                                !.runs = pool.runs + 1]
    /\ UNCHANGED <<db, unique_index, worker, history, calls, dicts, result, out, frame>>

\* a pool worker takes the next batch and calls the batch function on it
PoolDispatch(w) ==
    /\ pool.outcome \in {"running", "raised"}
    /\ pool.queue # <<>>
    /\ Free(w)
    /\ worker' = [worker EXCEPT ![w] =
           [IdleWorker EXCEPT !.job = pool.job, !.pc = "fetch", !.client = "open",
                              !.kind = KindOf(pool.job),
                              !.groups = Head(pool.queue),
                              !.batch = Head(pool.queue),
                              !.outcome = "running", !.runs = 1]]
    /\ pool' = [pool EXCEPT !.queue = Tail(@)]
    /\ UNCHANGED <<db, unique_index, history, calls, dicts, result, out, frame>>

\* for n in pool.imap_unordered(...): pbar.update(n); the result of a batch
\* that raised is the exception, raised again here
PoolCollect ==
    /\ pool.outcome = "running"
    /\ pool.first + pool.collected < Len(history)
    /\ LET h == history[pool.first + pool.collected + 1]
       IN  pool' = IF h.outcome = "returned"
                   THEN [pool EXCEPT !.collected = @ + 1, !.total = @ + h.counter]
                   ELSE [pool EXCEPT !.outcome = "raised",
                                     !.seen = Len(history) - pool.first]
    /\ UNCHANGED <<db, unique_index, worker, history, calls, dicts, result, out, frame>>

\* the loop over imap_unordered is over: every batch's result was taken
PoolReturn ==
    /\ pool.outcome = "running"
    /\ pool.queue = <<>>
    /\ \A w \in Workers : Free(w)
    /\ pool.first + pool.collected = Len(history)
    /\ pool' = [pool EXCEPT !.outcome = "returned"]
    /\ UNCHANGED <<db, unique_index, worker, history, calls, dicts, result, out, frame>>

NextPool ==
    \/ \E job \in Stages : PoolStart(job)
    \/ \E w \in Workers : PoolDispatch(w)
    \/ \E w \in Workers : StageStep(w)
    \/ PoolCollect
    \/ PoolReturn
    \/ \E w \in Workers :
          /\ pool.outcome = "raised"
          /\ Stop(w)

SpecPool == InitPool /\ [][NextPool]_vars

\* the sum of the counters of the batches among results a+1..b that returned
RECURSIVE ReturnedCounters(_, _)
ReturnedCounters(a, b) ==
    IF b <= a THEN 0
    ELSE ReturnedCounters(a, b - 1)
         + (IF history[b].outcome = "returned" THEN history[b].counter ELSE 0)

\* C19: once a batch's error has left main_multiproc, the progress total holds
\* the counter of every batch of the run that completed successfully.
C19_TotalHoldsCompletedBatches ==
    pool.outcome = "raised" =>
        pool.total = ReturnedCounters(pool.first, Len(history))

\* the proto-studies, in the order of their enumeration, that hold an image
\* of series s
StudiesOfSeries(s) ==
    {g \in DOMAIN proto_study_generator :
        \E m \in DOMAIN proto_study_generator[g].ids :
            db.ImageMetadata[proto_study_generator[g].ids[m]].series_id = s}

\* the study documents with the key of proto-study g
ParentsOf(g) ==
    {p \in DOMAIN db.RadiologicalStudy :
        StudyKey(db.RadiologicalStudy[p]) = proto_study_generator[g]._id}

\* C18: when the first multi-worker run of the Study stage has returned, the
\* store is what one worker taking the batches in order leaves: one study per
\* proto-study, every image linked to the study of its group, and every
\* series linked to the study of the last proto-study that holds one of its
\* images.
C18_PoolRunOutcomeIsFixed ==
    (/\ pool.job = "study"
     /\ pool.outcome = "returned"
     /\ \A i \in 1..pool.first : history[i].job = "series")
    =>
    /\ \A g \in DOMAIN proto_study_generator :
          /\ Cardinality(ParentsOf(g)) = 1
          /\ \A m \in DOMAIN proto_study_generator[g].ids :
                db.ImageMetadata[proto_study_generator[g].ids[m]].study_id
                    \in ParentsOf(g)
    /\ \A s \in DOMAIN db.RadiologicalSeries :
          StudiesOfSeries(s) # {} =>
              db.RadiologicalSeries[s].study_id \in
                  ParentsOf(CHOOSE g \in StudiesOfSeries(s) :
                                \A h \in StudiesOfSeries(s) : h <= g)

----------------------------------------------------------------------------
(* SpecBatcher: batcher's loop over a finite sequence, one step for each     *)
(* item and one for the end of the input.                                    *)

Items == {"x", "y"}

Iterables == UNION {[1..n -> Items] : n \in 0..MaxItems}

\* batch = [], counter = 0, nothing yielded
BatcherFrame(iterable, batch_size) ==
    [fn |-> "batcher", iterable |-> iterable, batch_size |-> batch_size,
     pc |-> "loop", i |-> 0, batch |-> <<>>, counter |-> 0, yielded |-> <<>>]

InitBatcher ==
    /\ IdlePipeline
    /\ db = EmptyDb
    /\ NoConsensusRun
    /\ \E iterable \in Iterables, batch_size \in 1..MaxBatchSize :
           frame = BatcherFrame(iterable, batch_size)

BatchIsShort(counter, batch_size) == counter % batch_size = 1

\* if counter % batch_size == 0
BatchIsFull(counter, batch_size) == counter % batch_size = 0

\* for i in iterable: batch.append(i); counter += 1; yield a full batch
BatcherLoop ==
    /\ frame.fn = "batcher"
    /\ frame.pc = "loop"
    /\ frame.i < Len(frame.iterable)
    /\ LET batch == Append(frame.batch, frame.iterable[frame.i + 1])
           counter == frame.counter + 1
       IN  frame' =
               IF BatchIsFull(counter, frame.batch_size)
               THEN [frame EXCEPT !.i = @ + 1, !.counter = counter,
                                  !.yielded = Append(@, batch), !.batch = <<>>]
               ELSE [frame EXCEPT !.i = @ + 1, !.counter = counter,
                                  !.batch = batch]
    /\ UNCHANGED <<db, unique_index, worker, history, calls, dicts, result, out, pool>>

\* the input is exhausted: if len(batch) > 0: yield batch
BatcherEnd ==
    /\ frame.fn = "batcher"
    /\ frame.pc = "loop"
    /\ frame.i = Len(frame.iterable)
    /\ frame' = IF Len(frame.batch) > 0
                THEN [frame EXCEPT !.pc = "done",
                                   !.yielded = Append(@, frame.batch),
                                   !.batch = <<>>]
                ELSE [frame EXCEPT !.pc = "done"]
    /\ UNCHANGED <<db, unique_index, worker, history, calls, dicts, result, out, pool>>

NextBatcher == BatcherLoop \/ BatcherEnd

SpecBatcher == InitBatcher /\ [][NextBatcher]_vars

RECURSIVE Concat(_)
Concat(batches) ==
    IF batches = <<>> THEN <<>> ELSE Head(batches) \o Concat(Tail(batches))

\* C21: for batch_size >= 1 the batches batcher has yielded when it ends,
\* concatenated in yield order, are the input; every batch but the last has
\* exactly batch_size items, the last has 1..batch_size, none is empty, and an
\* empty input yields no batch.
C21_BatchesPartitionInput ==
    (frame.fn = "batcher" /\ frame.pc = "done") =>
        LET y == frame.yielded
        IN  /\ Concat(y) = frame.iterable
            /\ \A k \in 1..Len(y) - 1 : Len(y[k]) = frame.batch_size
            /\ \A k \in 1..Len(y) : Len(y[k]) \in 1..frame.batch_size
            /\ frame.iterable = <<>> => y = <<>>

\* batcher ended after one full batch and a shorter last one
C21_Witness ==
    /\ frame.fn = "batcher" /\ frame.pc = "done"
    /\ frame.batch_size = 2
    /\ Len(frame.yielded) = 2
    /\ Len(frame.yielded[1]) = 2
    /\ Len(frame.yielded[2]) = 1

----------------------------------------------------------------------------
(* SpecPath: filesystem.py, get_instance_path applied to one dataset.  A tag *)
(* value is a text; Chars gives its characters, which the path functions     *)
(* slice, test and join.                                                     *)

\* patient ids: a sha256 hex digest, the digest of zeros, texts of 64
\* characters that are not 64 hex digits, texts of other lengths
HexId ==
    "e182ce29b495df648d52d1eb0123456789abcdef0123456789abcdef01234567"
ZeroId ==
    "0000000000000000000000000000000000000000000000000000000000000000"
PrefixedId ==
    "0x82ce29b495df648d52d1eb0123456789abcdef0123456789abcdef01234567"
PaddedId ==
    " e182ce29b495df648d52d1eb0123456789abcdef0123456789abcdef012345 "
SignedId ==
    "-e182ce29b495df648d52d1eb0123456789abcdef0123456789abcdef0123456"
UnderscoredId ==
    "e182ce29b495df648d52d1eb01234567_e182ce29b495df648d52d1eb0123456"
NonHexId ==
    "g182ce29b495df648d52d1eb0123456789abcdef0123456789abcdef01234567"
ShortId ==
    "e182ce29b495df648d52d1eb0123456789abcdef0123456789abcdef0123456"
LongId ==
    "e182ce29b495df648d52d1eb0123456789abcdef0123456789abcdef012345670"
RawId ==
    "6774825273"

PathPatientIDs ==
    {HexId, ZeroId, PrefixedId, PaddedId, SignedId, UnderscoredId, NonHexId,
     ShortId, LongId, RawId, "", Absent}

\* the characters of a text
Chars(s) ==
    CASE s = "e182ce29b495df648d52d1eb0123456789abcdef0123456789abcdef01234567" ->
            <<"e", "1", "8", "2", "c", "e", "2", "9", "b", "4", "9", "5",
            "d", "f", "6", "4", "8", "d", "5", "2", "d", "1", "e", "b", "0",
            "1", "2", "3", "4", "5", "6", "7", "8", "9", "a", "b", "c", "d",
            "e", "f", "0", "1", "2", "3", "4", "5", "6", "7", "8", "9", "a",
            "b", "c", "d", "e", "f", "0", "1", "2", "3", "4", "5", "6",
            "7">>
      [] s = "0000000000000000000000000000000000000000000000000000000000000000" ->
            <<"0", "0", "0", "0", "0", "0", "0", "0", "0", "0", "0", "0",
            "0", "0", "0", "0", "0", "0", "0", "0", "0", "0", "0", "0", "0",
            "0", "0", "0", "0", "0", "0", "0", "0", "0", "0", "0", "0", "0",
            "0", "0", "0", "0", "0", "0", "0", "0", "0", "0", "0", "0", "0",
            "0", "0", "0", "0", "0", "0", "0", "0", "0", "0", "0", "0",
            "0">>
      [] s = "0x82ce29b495df648d52d1eb0123456789abcdef0123456789abcdef01234567" ->
            <<"0", "x", "8", "2", "c", "e", "2", "9", "b", "4", "9", "5",
            "d", "f", "6", "4", "8", "d", "5", "2", "d", "1", "e", "b", "0",
            "1", "2", "3", "4", "5", "6", "7", "8", "9", "a", "b", "c", "d",
            "e", "f", "0", "1", "2", "3", "4", "5", "6", "7", "8", "9", "a",
            "b", "c", "d", "e", "f", "0", "1", "2", "3", "4", "5", "6",
            "7">>
      [] s = " e182ce29b495df648d52d1eb0123456789abcdef0123456789abcdef012345 " ->
            <<" ", "e", "1", "8", "2", "c", "e", "2", "9", "b", "4", "9",
            "5", "d", "f", "6", "4", "8", "d", "5", "2", "d", "1", "e", "b",
            "0", "1", "2", "3", "4", "5", "6", "7", "8", "9", "a", "b", "c",
            "d", "e", "f", "0", "1", "2", "3", "4", "5", "6", "7", "8", "9",
            "a", "b", "c", "d", "e", "f", "0", "1", "2", "3", "4", "5",
            " ">>
      [] s = "-e182ce29b495df648d52d1eb0123456789abcdef0123456789abcdef0123456" ->
            <<"-", "e", "1", "8", "2", "c", "e", "2", "9", "b", "4", "9",
            "5", "d", "f", "6", "4", "8", "d", "5", "2", "d", "1", "e", "b",
            "0", "1", "2", "3", "4", "5", "6", "7", "8", "9", "a", "b", "c",
            "d", "e", "f", "0", "1", "2", "3", "4", "5", "6", "7", "8", "9",
            "a", "b", "c", "d", "e", "f", "0", "1", "2", "3", "4", "5",
            "6">>
      [] s = "e182ce29b495df648d52d1eb01234567_e182ce29b495df648d52d1eb0123456" ->
            <<"e", "1", "8", "2", "c", "e", "2", "9", "b", "4", "9", "5",
            "d", "f", "6", "4", "8", "d", "5", "2", "d", "1", "e", "b", "0",
            "1", "2", "3", "4", "5", "6", "7", "_", "e", "1", "8", "2", "c",
            "e", "2", "9", "b", "4", "9", "5", "d", "f", "6", "4", "8", "d",
            "5", "2", "d", "1", "e", "b", "0", "1", "2", "3", "4", "5",
            "6">>
      [] s = "g182ce29b495df648d52d1eb0123456789abcdef0123456789abcdef01234567" ->
            <<"g", "1", "8", "2", "c", "e", "2", "9", "b", "4", "9", "5",
            "d", "f", "6", "4", "8", "d", "5", "2", "d", "1", "e", "b", "0",
            "1", "2", "3", "4", "5", "6", "7", "8", "9", "a", "b", "c", "d",
            "e", "f", "0", "1", "2", "3", "4", "5", "6", "7", "8", "9", "a",
            "b", "c", "d", "e", "f", "0", "1", "2", "3", "4", "5", "6",
            "7">>
      [] s = "e182ce29b495df648d52d1eb0123456789abcdef0123456789abcdef0123456" ->
            <<"e", "1", "8", "2", "c", "e", "2", "9", "b", "4", "9", "5",
            "d", "f", "6", "4", "8", "d", "5", "2", "d", "1", "e", "b", "0",
            "1", "2", "3", "4", "5", "6", "7", "8", "9", "a", "b", "c", "d",
            "e", "f", "0", "1", "2", "3", "4", "5", "6", "7", "8", "9", "a",
            "b", "c", "d", "e", "f", "0", "1", "2", "3", "4", "5", "6">>
      [] s = "e182ce29b495df648d52d1eb0123456789abcdef0123456789abcdef012345670" ->
            <<"e", "1", "8", "2", "c", "e", "2", "9", "b", "4", "9", "5",
            "d", "f", "6", "4", "8", "d", "5", "2", "d", "1", "e", "b", "0",
            "1", "2", "3", "4", "5", "6", "7", "8", "9", "a", "b", "c", "d",
            "e", "f", "0", "1", "2", "3", "4", "5", "6", "7", "8", "9", "a",
            "b", "c", "d", "e", "f", "0", "1", "2", "3", "4", "5", "6", "7",
            "0">>
      [] s = "6774825273" ->
            <<"6", "7", "7", "4", "8", "2", "5", "2", "7", "3">>
      [] s = "" ->
            <<>>
      [] s = "UNK_PatientID" ->
            <<"U", "N", "K", "_", "P", "a", "t", "i", "e", "n", "t", "I",
            "D">>
      [] s = "UNK" ->
            <<"U", "N", "K">>
      [] s = "20131109" ->
            <<"2", "0", "1", "3", "1", "1", "0", "9">>
      [] s = "00000000" ->
            <<"0", "0", "0", "0", "0", "0", "0", "0">>
      [] s = "19000101" ->
            <<"1", "9", "0", "0", "0", "1", "0", "1">>
      [] s = "162723" ->
            <<"1", "6", "2", "7", "2", "3">>
      [] s = "000000" ->
            <<"0", "0", "0", "0", "0", "0">>
      [] s = "162723.5" ->
            <<"1", "6", "2", "7", "2", "3", ".", "5">>
      [] s = "7" ->
            <<"7">>
      [] s = "CT" ->
            <<"C", "T">>
      [] s = "XR CHEST_1" ->
            <<"X", "R", " ", "C", "H", "E", "S", "T", "_", "1">>
      [] s = "1.2.3" ->
            <<"1", ".", "2", ".", "3">>
      [] s = "study_" ->
            <<"s", "t", "u", "d", "y", "_">>
      [] s = "series_" ->
            <<"s", "e", "r", "i", "e", "s", "_">>
      [] s = "_" ->
            <<"_">>
      [] s = ".dcm" ->
            <<".", "d", "c", "m">>
      [] s = "/" ->
            <<"/">>
      [] s = "-" ->
            <<"-">>

DecDigits == {"0", "1", "2", "3", "4", "5", "6", "7", "8", "9"}
HexDigits == DecDigits \cup {"a", "b", "c", "d", "e", "f",
                             "A", "B", "C", "D", "E", "F"}
AsciiLetters ==
    {"a", "b", "c", "d", "e", "f", "g", "h", "i", "j", "k", "l", "m", "n",
     "o", "p", "q", "r", "s", "t", "u", "v", "w", "x", "y", "z",
     "A", "B", "C", "D", "E", "F", "G", "H", "I", "J", "K", "L", "M", "N",
     "O", "P", "Q", "R", "S", "T", "U", "V", "W", "X", "Y", "Z"}

\* the datasets get_instance_path is applied to (keyword -> value)
PathKeys ==
    {"PatientID", "StudyDate", "StudyTime", "SeriesDate", "SeriesTime",
     "SeriesNumber", "Modality", "SeriesDescription", "SOPInstanceUID"}

PathValues(k) ==
    CASE k = "PatientID" -> PathPatientIDs
      [] k = "StudyDate" -> {"20131109", Absent}
      [] k = "StudyTime" -> {"162723", Absent}
      [] k = "SeriesDate" -> {"20131109", Absent}
      [] k = "SeriesTime" -> {"162723.5", Absent}
      [] k = "SeriesNumber" -> {"7", Absent}
      [] k = "Modality" -> {"CT", Absent}
      [] k = "SeriesDescription" -> {"XR CHEST_1", "", Absent}
      [] OTHER -> {"1.2.3", Absent}

Datasets ==
    {[k \in PathKeys |->
        CASE k = "PatientID" -> id
          [] k = "StudyDate" -> sd
          [] k = "StudyTime" -> st
          [] k = "SeriesDate" -> ed
          [] k = "SeriesTime" -> et
          [] k = "SeriesNumber" -> n
          [] k = "Modality" -> m
          [] k = "SeriesDescription" -> d
          [] OTHER -> uid] :
     id \in PathValues("PatientID"), sd \in PathValues("StudyDate"),
     st \in PathValues("StudyTime"), ed \in PathValues("SeriesDate"),
     et \in PathValues("SeriesTime"), n \in PathValues("SeriesNumber"),
     m \in PathValues("Modality"), d \in PathValues("SeriesDescription"),
     uid \in PathValues("SOPInstanceUID")}

\* model.py: DicomEntity.optional with parser str
opt(ds, tag_name, default) ==
    IF ds[tag_name] # Absent /\ ds[tag_name] # "" THEN ds[tag_name] ELSE default

\* os.path.join(path, b): a part that starts with "/" drops what came
\* before it
os_path_join(path, b) ==
    IF b # <<>> /\ b[1] = "/" THEN b
    ELSE IF path = <<>> \/ path[Len(path)] = "/" THEN path \o b
    ELSE path \o <<"/">> \o b

RECURSIVE lstrip(_)
lstrip(cs) == IF cs # <<>> /\ Head(cs) = " " THEN lstrip(Tail(cs)) ELSE cs

RECURSIVE rstrip(_)
rstrip(cs) ==
    IF cs # <<>> /\ cs[Len(cs)] = " " THEN rstrip(SubSeq(cs, 1, Len(cs) - 1))
    ELSE cs

\* the digits of a base-16 literal without its sign and prefix: hex digits
\* with single underscores between them (one may follow the prefix)
HexLiteral(digits, prefixed) ==
    IF /\ digits # <<>>
       /\ \A i \in DOMAIN digits : digits[i] \in HexDigits \cup {"_"}
       /\ digits[Len(digits)] # "_"
       /\ prefixed \/ digits[1] # "_"
       /\ \A i \in 1..Len(digits) - 1 : ~(digits[i] = "_" /\ digits[i + 1] = "_")
    THEN SelectSeq(digits, LAMBDA c : c # "_")
    ELSE ValueError

\* a literal after its sign: the 0x prefix is optional
Unprefixed(s) ==
    IF Len(s) >= 2 /\ s[1] = "0" /\ s[2] \in {"x", "X"}
    THEN HexLiteral(SubSeq(s, 3, Len(s)), TRUE)
    ELSE HexLiteral(s, FALSE)

Unsigned(s) ==
    IF s # <<>> /\ s[1] \in {"+", "-"} THEN Unprefixed(Tail(s)) ELSE Unprefixed(s)

\* int(x, 16): the hex digits of x, or ValueError.  int takes surrounding
\* whitespace, a sign, a 0x prefix and single underscores between digits.
\* (The sign is dropped: only the truth value of the number is used.)
int_base16(x) == Unsigned(rstrip(lstrip(x)))

\* the truth value of an int: it is not 0
Truthy(digits) == \E i \in DOMAIN digits : digits[i] # "0"

PathOk(path) == [error |-> "ok", path |-> path]
PathError(error) == [error |-> error, path |-> <<>>]

\* assert len(patient_anon_id) == 64
IdLength == 64

\* assert int(patient_anon_id, 16), then the three slices joined
AssertHex(p, n) ==
    IF n = ValueError THEN PathError("ValueError")
    ELSE IF ~Truthy(n) THEN PathError("AssertionError")
    ELSE PathOk(os_path_join(os_path_join(SubSeq(p, 1, 3), SubSeq(p, 4, 6)),
                             SubSeq(p, 7, 24)))

AssertLength(p) ==
    IF Len(p) # IdLength THEN PathError("AssertionError")
    ELSE AssertHex(p, int_base16(p))

\* filesystem.py: get_patient_path
get_patient_path(patient_anon_id) ==
    IF patient_anon_id = None THEN PathOk(Chars("UNK_PatientID"))
    ELSE AssertLength(Chars(patient_anon_id))

\* datetime.strftime("%Y%d%m") and ("%H%M%S") of a parsed <<DA, TM>>
Ydm(DA) == SubSeq(DA, 1, 4) \o SubSeq(DA, 7, 8) \o SubSeq(DA, 5, 6)

strftime_Ydm(dt) == Ydm(Chars(dt[1]))

strftime_HMS(dt) == SubSeq(Chars(dt[2]), 1, 6)

\* datetime(1900, 1, 1)
SentinelDate == <<"19000101", "000000">>

\* non_alphanumeric.sub("-", description)
Sanitized(description) ==
    [i \in DOMAIN description |->
        IF description[i] \in AsciiLetters \cup DecDigits THEN description[i]
        ELSE "-"]

\* get_instance_path is called on ds
PathFrame(ds) ==
    [fn |-> "get_instance_path", pc |-> "called", ds |-> ds, error |-> "ok",
     key |-> "", study_dt |-> NoDate, series_key |-> <<>>, series |-> <<>>,
     study |-> <<>>, path |-> <<>>]

InitPath ==
    /\ IdlePipeline
    /\ db = EmptyDb
    /\ NoConsensusRun
    /\ \E ds \in Datasets : frame = PathFrame(ds)

PathRaises(error) == [frame EXCEPT !.pc = "raised", !.error = error]

\* get_instance_path: key = ds.SOPInstanceUID, then get_series_path(ds)
GetInstancePath ==
    /\ frame.fn = "get_instance_path"
    /\ frame.pc = "called"
    /\ frame' = IF frame.ds["SOPInstanceUID"] = Absent
                THEN PathRaises("AttributeError")
                ELSE [frame EXCEPT !.pc = "get_series_path",
                                   !.key = frame.ds["SOPInstanceUID"]]
    /\ UNCHANGED <<db, unique_index, worker, history, calls, dicts, result, out, pool>>

\* series_key of a parsed series date
SeriesKey(ds, series_dt) ==
    IF series_dt = NoDate THEN Chars(opt(ds, "SeriesNumber", "UNK"))
    ELSE strftime_HMS(series_dt)

\* get_series_path up to its call of get_study_path: the two dates, the
\* series key, and the folder name of the series
SeriesLocals(ds, study_dt, series_dt) ==
    IF study_dt = ValueError \/ series_dt = ValueError
    THEN PathRaises("ValueError")
    ELSE [frame EXCEPT
             !.pc = "get_study_path",
             !.study_dt = study_dt,
             !.series_key = SeriesKey(ds, series_dt),
             !.series = Chars("series_") \o Chars(opt(ds, "Modality", "UNK"))
                 \o Chars("_") \o SeriesKey(ds, series_dt) \o Chars("_")
                 \o Sanitized(Chars(opt(ds, "SeriesDescription", "UNK")))]

GetSeriesPath ==
    /\ frame.fn = "get_instance_path"
    /\ frame.pc = "get_series_path"
    /\ frame' = SeriesLocals(
           frame.ds,
           parse_DA_TM_as_datetime(opt(frame.ds, "StudyDate", "00000000"),
                                   opt(frame.ds, "StudyTime", "000000")),
           parse_DA_TM_as_datetime(opt(frame.ds, "SeriesDate", "00000000"),
                                   opt(frame.ds, "SeriesTime", "000000")))
    /\ UNCHANGED <<db, unique_index, worker, history, calls, dicts, result, out, pool>>

\* get_study_path up to its call of get_patient_path: the sentinel date
\* for None, and the folder name of the study
GetStudyPath ==
    /\ frame.fn = "get_instance_path"
    /\ frame.pc = "get_study_path"
    /\ frame' = [frame EXCEPT
           !.pc = "get_patient_path",
           !.study = Chars("study_") \o
               strftime_Ydm(IF frame.study_dt = NoDate THEN SentinelDate
                            ELSE frame.study_dt)]
    /\ UNCHANGED <<db, unique_index, worker, history, calls, dicts, result, out, pool>>

PatientPathReturns(r) ==
    IF r.error # "ok" THEN PathRaises(r.error)
    ELSE [frame EXCEPT !.pc = "join", !.path = r.path]

\* get_patient_path(ds.get("PatientID", None)): it returns the patient's
\* folders or raises through its three callers
GetPatientPath ==
    /\ frame.fn = "get_instance_path"
    /\ frame.pc = "get_patient_path"
    /\ frame' = PatientPathReturns(
           get_patient_path(IF frame.ds["PatientID"] = Absent THEN None
                            ELSE frame.ds["PatientID"]))
    /\ UNCHANGED <<db, unique_index, worker, history, calls, dicts, result, out, pool>>

\* the os.path.join of get_study_path, get_series_path and get_instance_path
JoinPath ==
    /\ frame.fn = "get_instance_path"
    /\ frame.pc = "join"
    /\ frame' = [frame EXCEPT
           !.pc = "returned",
           !.path = os_path_join(
               os_path_join(os_path_join(frame.path, frame.study), frame.series),
               Chars(frame.key) \o Chars(".dcm"))]
    /\ UNCHANGED <<db, unique_index, worker, history, calls, dicts, result, out, pool>>

NextPath ==
    \/ GetInstancePath
    \/ GetSeriesPath
    \/ GetStudyPath
    \/ GetPatientPath
    \/ JoinPath

SpecPath == InitPath /\ [][NextPath]_vars

\* the patient id is 64 hexadecimal characters
IsHexId(id) ==
    /\ id # Absent
    /\ Len(Chars(id)) = IdLength
    /\ \A i \in DOMAIN Chars(id) : Chars(id)[i] \in HexDigits

\* the path the derived-path format gives a dataset for a series key
FormatPath(ds, key) ==
    LET id == Chars(ds["PatientID"])
        patient == IF ds["PatientID"] = Absent THEN Chars("UNK_PatientID")
                   ELSE SubSeq(id, 1, 3) \o <<"/">> \o SubSeq(id, 4, 6)
                        \o <<"/">> \o SubSeq(id, 7, 24)
        date == IF ds["StudyDate"] = Absent THEN <<"1", "9", "0", "0", "0", "1", "0", "1">>
                ELSE LET DA == Chars(ds["StudyDate"])
                     IN  SubSeq(DA, 1, 4) \o SubSeq(DA, 7, 8) \o SubSeq(DA, 5, 6)
        text(k) == IF ds[k] \in {Absent, ""} THEN <<"U", "N", "K">> ELSE Chars(ds[k])
        description == [i \in DOMAIN text("SeriesDescription") |->
                           IF text("SeriesDescription")[i] \in AsciiLetters \cup DecDigits
                           THEN text("SeriesDescription")[i] ELSE "-"]
    IN  patient \o <<"/", "s", "t", "u", "d", "y", "_">> \o date
        \o <<"/", "s", "e", "r", "i", "e", "s", "_">> \o text("Modality")
        \o <<"_">> \o key \o <<"_">> \o description
        \o <<"/">> \o Chars(ds["SOPInstanceUID"]) \o <<".", "d", "c", "m">>

\* the series keys of the format: the series time as HHMMSS, the series
\* number, or UNK
SeriesKeys(ds) ==
    {<<"1", "6", "2", "7", "2", "3">>, <<"0", "0", "0", "0", "0", "0">>,
     <<"U", "N", "K">>}
    \cup (IF ds["SeriesNumber"] # Absent THEN {Chars(ds["SeriesNumber"])} ELSE {})

\* C22: for a dataset whose patient id is 64 hex characters or missing,
\* get_instance_path returns the path of the format: the id cut 3/3/18 (or
\* UNK_PatientID), study_<year><day><month> (of 1900-01-01 when the study
\* date is missing), series_<modality>_<series key>_<sanitized description>,
\* and <SOPInstanceUID>.dcm.
C22_PathOfTheFormat ==
    (/\ frame.fn = "get_instance_path"
     /\ frame.pc \in {"returned", "raised"}
     /\ frame.ds["SOPInstanceUID"] # Absent
     /\ IsHexId(frame.ds["PatientID"]) \/ frame.ds["PatientID"] = Absent)
    => /\ frame.pc = "returned"
       /\ \E key \in SeriesKeys(frame.ds) : frame.path = FormatPath(frame.ds, key)

\* C23: get_instance_path (through get_series_path, get_study_path and
\* get_patient_path) raises and returns no path for every patient id that is
\* present and is not exactly 64 hexadecimal characters.
C23_MalformedIdIsRejected ==
    (/\ frame.fn = "get_instance_path"
     /\ frame.pc \in {"returned", "raised"}
     /\ frame.ds["PatientID"] # Absent
     /\ ~IsHexId(frame.ds["PatientID"]))
    => /\ frame.pc = "raised"
       /\ frame.path = <<>>

\* C24: when the series time is missing, the series key of the derived path
\* is the series number if the dataset has one and UNK otherwise, with or
\* without a series date.
C24_SeriesKeyFallsBackWithoutTime ==
    (/\ frame.fn = "get_instance_path"
     /\ frame.pc = "returned"
     /\ frame.ds["SeriesTime"] = Absent)
    => frame.series_key =
           IF frame.ds["SeriesNumber"] # Absent THEN Chars(frame.ds["SeriesNumber"])
           ELSE <<"U", "N", "K">>

----------------------------------------------------------------------------
(* SpecImageDao: the ImageMetadataDao called directly.  insert_one stores    *)
(* an image; update_series_id, update_study_id and add_aka are               *)
(* collection.update_one with the filter {"_id": id}.  A stored image has    *)
(* its tag record, file_source, the two back-references, the list of         *)
(* alternate file sources and _metadata.modified.                            *)

FileSources == {"drive1/a.dcm", "drive2/a.dcm"}

ImageTagRecords == {t \in TagRecords : t["StudyTime"] = Absent /\ t["PatientID"] = "P1"}

\* ImageMetadata.to_dict of a new image: no back-reference, no alternate
\* file source (a $push to the missing field makes the list)
ImageDocument(tags, file_source) ==
    [dicom_tags |-> tags, series_id |-> NoId, study_id |-> NoId,
     file_source |-> file_source, aka_file_sources |-> <<>>, modified |-> 0]

ImageDocuments == {ImageDocument(t, "drive1/a.dcm") : t \in ImageTagRecords}

\* datetime.now(timezone.utc) of the next call
InitImageDao ==
    /\ IdlePipeline
    /\ NoConsensusRun
    /\ \E images \in UNION {[1..n -> ImageDocuments] : n \in 0..MaxImages} :
           db = [EmptyDb EXCEPT !["ImageMetadata"] = images]
    /\ frame = [fn |-> "ImageMetadataDao", now |-> 1]

\* the completed call, with the collection before and after it
ImageDaoCall(fn, id, newdb) ==
    /\ frame.fn = "ImageMetadataDao"
    /\ Len(calls) < MaxCalls
    /\ db' = newdb
    /\ calls' = Append(calls, [fn |-> fn, id |-> id,
                               before |-> db["ImageMetadata"],
                               after |-> newdb["ImageMetadata"]])
    /\ frame' = [frame EXCEPT !.now = @ + 1]
    /\ UNCHANGED <<unique_index, worker, history, dicts, result, out, pool>>

\* ImageMetadataDao.insert_one: collection.insert_one(im_metadata.to_dict())
ImageInsertOne(im_metadata) ==
    ImageDaoCall("insert_one", Len(db["ImageMetadata"]) + 1,
                 [db EXCEPT !["ImageMetadata"] = Append(@, im_metadata)])

AllImages(id) == DOMAIN db["ImageMetadata"]

\* the documents the filter {"_id": id} matches
FilterById(id) == {i \in DOMAIN db["ImageMetadata"] : i = id}

\* collection.update_one(filter, update): the update applied to the first
\* document that matches, no change when none does
UpdateOne(matched, update(_)) ==
    IF matched = {} THEN db
    ELSE LET i == CHOOSE x \in matched : \A y \in matched : x <= y
         IN  [db EXCEPT !["ImageMetadata"][i] = update(@)]

\* ImageMetadataDao.update_series_id
ImageUpdateSeriesId(im_meta_id, series_id) ==
    LET set(doc) == [doc EXCEPT !.series_id = series_id, !.modified = frame.now]
    IN  ImageDaoCall("update_series_id", im_meta_id,
                     UpdateOne(FilterById(im_meta_id), set))

\* ImageMetadataDao.update_study_id
ImageUpdateStudyId(im_meta_id, study_id) ==
    LET set(doc) == [doc EXCEPT !.study_id = study_id, !.modified = frame.now]
    IN  ImageDaoCall("update_study_id", im_meta_id,
                     UpdateOne(FilterById(im_meta_id), set))

\* ImageMetadataDao.add_aka: $set of _metadata.modified, $push of the
\* file source
add_aka(im_meta_id, file_source) ==
    LET update(doc) == [doc EXCEPT !.modified = frame.now,
                                   !.aka_file_sources = Append(@, file_source)]
    IN  ImageDaoCall("add_aka", im_meta_id,
                     UpdateOne(FilterById(im_meta_id), update))

\* the ids a caller passes: those of stored documents and one of none
ImageIds == 1..MaxImages + 1

NextImageDao ==
    \/ /\ Len(db["ImageMetadata"]) < MaxImages
       /\ \E doc \in ImageDocuments : ImageInsertOne(doc)
    \/ \E id \in ImageIds, series_id \in 1..2 : ImageUpdateSeriesId(id, series_id)
    \/ \E id \in ImageIds, study_id \in 1..2 : ImageUpdateStudyId(id, study_id)
    \/ \E id \in ImageIds, fs \in FileSources : add_aka(id, fs)

SpecImageDao == InitImageDao /\ [][NextImageDao]_vars

\* the fields a call of the ImageMetadataDao may change
Touched(fn) ==
    CASE fn = "update_series_id" -> {"series_id", "modified"}
      [] fn = "update_study_id" -> {"study_id", "modified"}
      [] fn = "add_aka" -> {"aka_file_sources", "modified"}
      [] OTHER -> {}

\* C25: update_series_id, update_study_id and add_aka change, in the one
\* document with the given id, only the named back-reference or the list of
\* alternate file sources, and the modified timestamp; that document's tag
\* record and file_source and every other document stay as they were, so the
\* tag record of an image is the one it was inserted with in every later state.
C25_UpdatesTouchOnlyTheirFields ==
    \A n \in DOMAIN calls :
        LET c == calls[n]
        IN  /\ c.fn # "insert_one" =>
                /\ DOMAIN c.after = DOMAIN c.before
                /\ \A i \in DOMAIN c.before :
                       /\ i # c.id => c.after[i] = c.before[i]
                       /\ \A f \in DOMAIN c.before[i] \ Touched(c.fn) :
                              c.after[i][f] = c.before[i][f]
            /\ c.fn = "insert_one" =>
                db["ImageMetadata"][c.id].dicom_tags = c.after[c.id].dicom_tags

\* an image was inserted beside another one and then given a series_id
C25_Witness ==
    /\ Len(calls) = 2
    /\ calls[1].fn = "insert_one" /\ calls[1].id = 2
    /\ calls[2].fn = "update_series_id" /\ calls[2].id = 2
    /\ db["ImageMetadata"][2].series_id = 1
    /\ db["ImageMetadata"][2].modified = 2
    /\ db["ImageMetadata"][1].series_id = NoId

----------------------------------------------------------------------------
(* SpecLinks: overlapping runs as in SpecRace, over images of one study that *)
(* belong to two series.                                                     *)

LinkTagRecords ==
    {t \in TagRecords : /\ t["PatientID"] = "P1"
                        /\ t["StudyTime"] = Absent
                        /\ t["SeriesInstanceUID"] # Absent}
    \cup {[t EXCEPT !["SeriesInstanceUID"] = "S2"] :
            t \in {x \in TagRecords : /\ x["PatientID"] = "P1"
                                      /\ x["StudyTime"] = Absent
                                      /\ x["SeriesInstanceUID"] # Absent}}

InitLinks ==
    /\ InitStore
    /\ \E images \in UNION {[1..m -> {NewImageMetadata(t) : t \in LinkTagRecords}] :
                               m \in 1..LinkImages} :
           db = [EmptyDb EXCEPT !["ImageMetadata"] = images]
    /\ NoConsensusRun

\* a stage starts when the one before has ended; each worker takes one
\* batch of a stage
CanStartLinks(w, job) ==
    /\ \A v \in Workers :
          /\ Rank(worker[v].job) <= Rank(job)
          /\ Rank(worker[v].job) < Rank(job) => Free(v)
    /\ worker[w].job # job

NextLinks ==
    \/ \E w \in Workers, job \in Stages :
          /\ CanStartLinks(w, job)
          /\ StartBatch(w, job)
    \/ \E w \in Workers : StageStep(w)

SpecLinks == InitLinks /\ [][NextLinks]_vars

\* C26: in every state of the pipeline's runs, an image whose series_id is
\* set references a stored RadiologicalSeries document, and that document's
\* series_uid is the image's SeriesInstanceUID.
C26_SeriesIdReferencesOwnSeries ==
    \A i \in DOMAIN db["ImageMetadata"] :
        LET im == db["ImageMetadata"][i]
        IN  im.series_id # NoId =>
                /\ im.series_id \in DOMAIN db["RadiologicalSeries"]
                /\ db["RadiologicalSeries"][im.series_id].series_uid =
                       im.dicom_tags["SeriesInstanceUID"]

\* two images of two series are linked to the two series documents that a
\* second batch of the Series stage found stored
C26_Witness ==
    /\ Len(db["ImageMetadata"]) = 2
    /\ db["ImageMetadata"][1].dicom_tags["SeriesInstanceUID"] = "S1"
    /\ db["ImageMetadata"][2].dicom_tags["SeriesInstanceUID"] = "S2"
    /\ db["ImageMetadata"][1].series_id # NoId
    /\ db["ImageMetadata"][2].series_id # NoId
    /\ Len(db["RadiologicalSeries"]) = 2
    /\ \E i \in DOMAIN history :
          /\ history[i].job = "series"
          /\ history[i].outcome = "returned"
          /\ Len(history[i].db["RadiologicalSeries"]) = 2
          /\ \E j \in 1..i - 1 : history[j].job = "series"

\* C27: once a run of the Study stage has returned directly after a returned
\* run of the Series stage, every RadiologicalSeries document has its study_id
\* set, and it is the id of a stored RadiologicalStudy document.
C27_SeriesHasOneStudy ==
    \A i \in DOMAIN history :
        (/\ i > 1
         /\ history[i].job = "study"
         /\ history[i].outcome = "returned"
         /\ history[i - 1].job = "series"
         /\ history[i - 1].outcome = "returned")
        => \A s \in DOMAIN history[i].db["RadiologicalSeries"] :
               LET series == history[i].db["RadiologicalSeries"][s]
               IN  /\ series.study_id # NoId
                   /\ series.study_id \in
                          DOMAIN history[i].db["RadiologicalStudy"]

----------------------------------------------------------------------------
(* SpecEntity: an entity of the data model is constructed, stored through    *)
(* to_dict, updated in the store, loaded through from_dict and exported      *)
(* again. A python value is a record of its type and its value; the value of *)
(* a dict or of an object is a function from its keys or attributes.         *)

NoneValue == [type |-> "NoneType", value |-> "None"]

TypeError == [type |-> "TypeError", value |-> "TypeError"]

Value(type) == [type |-> type, value |-> "v"]

dict(items) == [type |-> "dict", items |-> items]

list(elements) == [type |-> "list", elements |-> elements]

Object(cls, attrs) == [type |-> cls, attrs |-> attrs]

Field(name, type, required) ==
    [name |-> name, type |-> type, required |-> required]

\* the annotations that are no classes: type(typ) != type for the generics of
\* typing and for the enumerations
NoClass == {"typing", "Enum"}

Entities == {"Patient", "RadiologicalStudy", "RadiologicalSeries",
             "ImageMetadata"}

Embeddeds == {"Metadata", "FileSource"}

\* issubclass(typ, BaseObj)
BaseObjs == Entities \cup Embeddeds

EntityFields ==
    <<Field("_id", "ObjectId", TRUE), Field("_metadata", "Metadata", TRUE)>>

DicomEntityFields == EntityFields \o <<Field("dicom_tags", "dict", TRUE)>>

\* the dataclass fields of a class, in the order of their definition
fields(cls) ==
    CASE cls = "Metadata" ->
           <<Field("model_version", "str", TRUE),
             Field("created", "datetime", TRUE),
             Field("modified", "datetime", FALSE),
             Field("project_name", "str", FALSE)>>
      [] cls = "FileSource" ->
           <<Field("drive_name", "str", TRUE),
             Field("rel_path", "str", TRUE),
             Field("filename", "str", FALSE)>>
      [] cls = "Patient" ->
           EntityFields \o
           <<Field("anon_id", "str", TRUE),
             Field("hidden", "bool", TRUE),
             Field("birth_date", "datetime", FALSE)>>
      [] cls = "RadiologicalStudy" ->
           DicomEntityFields \o
           <<Field("study_uid", "typing", TRUE),
             Field("date", "datetime", TRUE),
             Field("series_count", "int", TRUE),
             Field("modality", "typing", FALSE),
             Field("sop_class", "typing", FALSE),
             Field("description", "str", FALSE),
             Field("patient_id", "ObjectId", FALSE),
             Field("accession_number", "typing", FALSE),
             Field("patient_age", "int", FALSE),
             Field("patient_weight", "float", FALSE),
             Field("patient_height", "float", FALSE),
             Field("patient_pregnancy_status", "Enum", FALSE)>>
      [] cls = "RadiologicalSeries" ->
           DicomEntityFields \o
           <<Field("study_id", "ObjectId", TRUE),
             Field("date", "datetime", FALSE),
             Field("series_uid", "str", FALSE),
             Field("description", "str", FALSE),
             Field("image_count", "int", FALSE),
             Field("image_shape", "typing", FALSE),
             Field("protocol_name", "str", FALSE)>>
      [] cls = "ImageMetadata" ->
           DicomEntityFields \o
           <<Field("file_source", "FileSource", TRUE),
             Field("study_id", "ObjectId", FALSE),
             Field("series_id", "ObjectId", FALSE),
             Field("aka_file_sources", "typing", FALSE)>>

FieldNames(cls) == {fields(cls)[i].name : i \in DOMAIN fields(cls)}

Required(cls) ==
    {fields(cls)[i].name : i \in {j \in DOMAIN fields(cls) :
                                    fields(cls)[j].required}}

\* os.path.basename of the relative paths of the model
RelPath == "a/b.dcm"

basename(path) == IF path = RelPath THEN "b.dcm" ELSE path

\* the generated __init__ of a dataclass: an unexpected keyword or a missing
\* required argument is a TypeError, a missing optional argument is None
init(cls, kwargs) ==
    IF \/ ~(DOMAIN kwargs \subseteq FieldNames(cls))
       \/ ~(Required(cls) \subseteq DOMAIN kwargs)
    THEN TypeError
    ELSE Object(cls, [k \in FieldNames(cls) |->
                        IF k \in DOMAIN kwargs THEN kwargs[k] ELSE NoneValue])

\* Metadata.create()
MetadataCreate ==
    Object("Metadata",
           [k \in FieldNames("Metadata") |->
              CASE k = "model_version" -> Value("str")
                [] k = "created" -> Value("datetime")
                [] OTHER -> NoneValue])

\* FileSource.__post_init__: the filename defaults to the base name
FileSourcePostInit(self) ==
    IF self.attrs["filename"].type = "NoneType"
    THEN Object("FileSource",
                [self.attrs EXCEPT
                   !["filename"] = [type |-> "str",
                                    value |-> basename(
                                        self.attrs["rel_path"].value)]])
    ELSE self

\* Entity.__post_init__: the metadata is created when missing and built from
\* a dict when given as one
EntityPostInit(self) ==
    LET m == self.attrs["_metadata"]
        built == IF m.type = "NoneType" THEN MetadataCreate
                 ELSE IF m.type = "dict" THEN init("Metadata", m.items)
                 ELSE m
    IN  IF built.type = "TypeError" THEN TypeError
        ELSE Object(self.type, [self.attrs EXCEPT !["_metadata"] = built])

\* cls(**kwargs): __init__, then __post_init__
new(cls, kwargs) ==
    LET self == init(cls, kwargs)
    IN  IF self.type = "TypeError" THEN TypeError
        ELSE IF cls = "FileSource" THEN FileSourcePostInit(self)
        ELSE IF cls \in Entities THEN EntityPostInit(self)
        ELSE self

\* Embedded.from_dict and RadiologicalStudy.from_dict: cls(**d)
EmbeddedFromDict(cls, d) == new(cls, d.items)

\* the body of the loop of Entity.from_dict for one field
LoadField(f, obj_dict, attr) ==
    IF /\ f.type \notin NoClass
       /\ f.name \in DOMAIN obj_dict
       /\ obj_dict[f.name].type # "NoneType"
       /\ f.type \in BaseObjs
    THEN EmbeddedFromDict(f.type, obj_dict[f.name])
    ELSE attr

\* Entity.from_dict
EntityFromDict(cls, d) ==
    LET obj == new(cls, d.items)
    IN  IF obj.type = "TypeError" THEN TypeError
        ELSE LET attrs == [k \in FieldNames(cls) |->
                             LET i == CHOOSE j \in DOMAIN fields(cls) :
                                          fields(cls)[j].name = k
                             IN  LoadField(fields(cls)[i], d.items,
                                           obj.attrs[k])]
             IN  IF \E k \in FieldNames(cls) : attrs[k].type = "TypeError"
                 THEN TypeError
                 ELSE Object(cls, attrs)

from_dict(cls, d) ==
    IF cls = "RadiologicalStudy" THEN EmbeddedFromDict(cls, d)
    ELSE EntityFromDict(cls, d)

\* BaseObj.to_dict of an object without nested objects
FlatToDict(self) ==
    dict([k \in {a \in DOMAIN self.attrs : self.attrs[a].type # "NoneType"}
            |-> self.attrs[k]])

\* BaseObj.expand
expand(value) == IF value.type \in BaseObjs THEN FlatToDict(value) ELSE value

\* BaseObj.to_dict: the attributes that are not None, nested objects expanded
to_dict(self) ==
    dict([k \in {a \in DOMAIN self.attrs : self.attrs[a].type # "NoneType"}
            |-> expand(self.attrs[k])])

\* the values the constructors of the scripts give an attribute
Sample(f) ==
    CASE f.name = "dicom_tags" -> dict(<<>>)
      [] f.name = "file_source" ->
           new("FileSource", [k \in {"drive_name", "rel_path"} |->
                                IF k = "rel_path"
                                THEN [type |-> "str", value |-> RelPath]
                                ELSE Value("str")])
      [] f.name = "aka_file_sources" ->
           list(<<dict([k \in FieldNames("FileSource") |-> Value("str")])>>)
      [] f.type \in NoClass -> list(<<Value("str")>>)
      [] OTHER -> Value(f.type)

\* the attributes from_dataset leaves None: the store and the stages set them
BuiltNone == {"_id", "_metadata", "study_id", "series_id", "patient_id"}

MaxSet == 2

\* from_dataset: every field is passed, the required ones with a value, at
\* most MaxSet of the optional ones with a value and the others with None
Kwargs(cls) ==
    {[k \in FieldNames(cls) |->
        LET i == CHOOSE j \in DOMAIN fields(cls) : fields(cls)[j].name = k
        IN  IF k \in BuiltNone THEN NoneValue
            ELSE IF fields(cls)[i].required \/ k \in set
            THEN Sample(fields(cls)[i])
            ELSE NoneValue] :
       set \in {x \in SUBSET (FieldNames(cls) \ Required(cls)) :
                  Cardinality(x) <= MaxSet}}

EntityFrame(cls, kwargs) ==
    [fn |-> "Entity", pc |-> "constructed", cls |-> cls,
     self |-> new(cls, kwargs), doc |-> NoneValue, loaded |-> NoneValue,
     dumped |-> NoneValue]

InitEntity ==
    /\ IdlePipeline
    /\ db = EmptyDb
    /\ NoConsensusRun
    /\ \E cls \in Entities : \E kwargs \in Kwargs(cls) :
          frame = EntityFrame(cls, kwargs)

\* EntityDao.insert_one: collection.insert_one(entity.to_dict()); the store
\* gives the document its _id
DaoInsertOne ==
    /\ frame.fn = "Entity"
    /\ frame.pc = "constructed"
    /\ LET d == to_dict(frame.self).items
       IN  frame' = [frame EXCEPT
                       !.pc = "stored",
                       !.doc = dict([k \in DOMAIN d \cup {"_id"} |->
                                       IF k = "_id" THEN Value("ObjectId")
                                       ELSE d[k]])]
    /\ UNCHANGED <<db, unique_index, worker, history, calls, dicts, result, out, pool>>

\* the back-references the stages set in a stored document
BackReferences(cls) ==
    FieldNames(cls) \cap {"study_id", "series_id", "patient_id"}

\* update_study_id, update_series_id, update_patient_id: $set of one
\* back-reference and of _metadata.modified
DaoUpdateOne ==
    /\ frame.fn = "Entity"
    /\ frame.pc = "stored"
    /\ \E ref \in BackReferences(frame.cls) \ DOMAIN frame.doc.items :
          LET d == frame.doc.items
              m == d["_metadata"].items
              modified == dict([k \in DOMAIN m \cup {"modified"} |->
                                  IF k = "modified" THEN Value("datetime")
                                  ELSE m[k]])
          IN  frame' = [frame EXCEPT
                          !.doc = dict([k \in DOMAIN d \cup {ref} |->
                                          IF k = ref THEN Value("ObjectId")
                                          ELSE IF k = "_metadata"
                                          THEN modified
                                          ELSE d[k]])]
    /\ UNCHANGED <<db, unique_index, worker, history, calls, dicts, result, out, pool>>

\* EntityDao.get_by_id: entity_type.from_dict(obj_dict)
DaoGetById ==
    /\ frame.fn = "Entity"
    /\ frame.pc = "stored"
    /\ LET obj == from_dict(frame.cls, frame.doc)
       IN  frame' = [frame EXCEPT
                       !.pc = IF obj.type = "TypeError" THEN "raised" ELSE "loaded",
                       !.loaded = obj]
    /\ UNCHANGED <<db, unique_index, worker, history, calls, dicts, result, out, pool>>

\* to_dict of the loaded object
EntityToDict ==
    /\ frame.fn = "Entity"
    /\ frame.pc = "loaded"
    /\ frame' = [frame EXCEPT !.pc = "dumped",
                              !.dumped = to_dict(frame.loaded)]
    /\ UNCHANGED <<db, unique_index, worker, history, calls, dicts, result, out, pool>>

NextEntity ==
    \/ DaoInsertOne
    \/ DaoUpdateOne
    \/ DaoGetById
    \/ EntityToDict

SpecEntity == InitEntity /\ [][NextEntity]_vars

\* no key of the dict, nor of a dict nested in it, has the value None
NoNoneValue(d) ==
    \A k \in DOMAIN d.items :
        /\ d.items[k].type # "NoneType"
        /\ d.items[k].type = "dict" =>
              \A n \in DOMAIN d.items[k].items :
                  d.items[k].items[n].type # "NoneType"

\* C28: a stored document of one of the four entities has no key whose value
\* is None, from_dict of it returns an object, and to_dict of that object
\* equals the document and has no key whose value is None either.
C28_RoundTripOfStoredDocument ==
    (frame.fn = "Entity" /\ frame.pc \notin {"constructed"}) =>
        /\ NoNoneValue(frame.doc)
        /\ frame.pc # "raised"
        /\ frame.pc = "dumped" =>
              /\ frame.dumped = frame.doc
              /\ NoNoneValue(frame.dumped)

----------------------------------------------------------------------------
(* SpecPersonalNumber: get_checksum and validate of PersonalNumberValidator  *)
(* on personal numbers. A str is the sequence of its characters and a        *)
(* PersonalNumberValidity the set of its flags.                              *)

\* int(c) of one decimal digit
int(c) ==
    CASE c = "0" -> 0 [] c = "1" -> 1 [] c = "2" -> 2 [] c = "3" -> 3
      [] c = "4" -> 4 [] c = "5" -> 5 [] c = "6" -> 6 [] c = "7" -> 7
      [] c = "8" -> 8 [] c = "9" -> 9

identity == <<"2", "1", "2", "1", "2", "1", "2", "1", "2">>

Shorter(a, b) == IF a < b THEN a ELSE b

\* sum(int(m) for m in "".join(multiply)) over the first n pairs of the zip:
\* a product of two digits has at most two digits
RECURSIVE sum_digits(_, _)
sum_digits(personal_number, n) ==
    IF n = 0 THEN 0
    ELSE LET multiply == int(personal_number[n]) * int(identity[n])
         IN  (multiply \div 10) + (multiply % 10)
             + sum_digits(personal_number, n - 1)

\* int(p) raises ValueError for a character of the zip that is no digit
ChecksumRaises(personal_number) ==
    \E i \in 1..Shorter(Len(personal_number), Len(identity)) :
        personal_number[i] \notin DecDigits

\* get_checksum: 10 - int(sum_digits[-1])
get_checksum(personal_number) ==
    10 - (sum_digits(personal_number,
                     Shorter(Len(personal_number), Len(identity))) % 10)

\* re.sub(r"[^\da-zA-Z]+", "", personal_number)
IsAlnum(c) == c \in DecDigits \cup AsciiLetters

Alnum(personal_number) == SelectSeq(personal_number, IsAlnum)

\* personal_number[2:] for the long version
Short(personal_number) ==
    IF Len(personal_number) = 12
    THEN SubSeq(personal_number, 3, 12)
    ELSE personal_number

TwoDigits(text, i) == 10 * int(text[i]) + int(text[i + 1])

\* %y: 69..99 are 1969..1999 and 00..68 are 2000..2068, where every fourth
\* year is a leap year
DaysInMonth(y, m) ==
    IF m = 2 THEN (IF y % 4 = 0 THEN 29 ELSE 28)
    ELSE IF m \in {4, 6, 9, 11} THEN 30
    ELSE 31

\* datetime.strptime(text[:6], "%y%m%d") returns: six digits of a date
strptime_ymd(text) ==
    /\ Len(text) >= 6
    /\ \A i \in 1..6 : text[i] \in DecDigits
    /\ TwoDigits(text, 3) \in 1..12
    /\ TwoDigits(text, 5) \in
           1..DaysInMonth(TwoDigits(text, 1), TwoDigits(text, 3))

\* the checksum block of validate: a ValueError of get_checksum or of
\* int(personal_number[-1]) is passed over
ChecksumFlag(number) ==
    IF \/ ChecksumRaises(number)
       \/ number[Len(number)] \notin DecDigits
       \/ int(number[Len(number)]) # get_checksum(number)
    THEN {}
    ELSE {"CHECKSUM"}

validate(personal_number) ==
    LET number == Short(Alnum(personal_number))
    IN  (IF Alnum(personal_number) = personal_number THEN {"CHARS"} ELSE {})
        \cup (IF Len(Alnum(personal_number)) = 12 THEN {"LENGTH"} ELSE {})
        \cup (IF strptime_ymd(number) THEN {"DATE"} ELSE {})
        \cup ChecksumFlag(number)

FreeDigits == 3

TenDigitBases ==
    {<<"8", "1", "1", "2", "2", "8", "9", "8", "7", "4">>,
     <<"0", "0", "0", "0", "0", "0", "0", "0", "0", "0">>,
     <<"0", "0", "0", "2", "2", "9", "1", "2", "3", "4">>,
     <<"8", "1", "0", "2", "2", "9", "1", "2", "3", "4">>,
     <<"9", "9", "1", "3", "0", "1", "1", "2", "3", "4">>}

\* 10-digit numbers: the head of a base and FreeDigits digits of any value
TenDigitNumbers ==
    {SubSeq(base, 1, 10 - FreeDigits) \o tail :
       base \in TenDigitBases, tail \in [1..FreeDigits -> DecDigits]}

OtherNumbers ==
    {<<"8", "1", "1", "2", "2", "8", "-", "9", "8", "7", "4">>,
     <<"1", "9", "8", "1", "1", "2", "2", "8", "9", "8", "7", "4">>,
     <<"8", "1", "-", "1", "2", "-", "2", "8", "8", "9", "8", "4">>,
     <<"1", "2", "3", "4", "5", "6", "7", "8", "9", "1", "0", "1">>,
     <<"1", "9", "0", "0", "0", "1", "0", "1", "-", "A", "B", "C", "D">>}

PersonalNumbers == TenDigitNumbers \cup OtherNumbers

NoChecksum == 0 - 1

InitPersonalNumber ==
    /\ IdlePipeline
    /\ db = EmptyDb
    /\ NoConsensusRun
    /\ \E personal_number \in PersonalNumbers :
          frame = [fn |-> "PersonalNumberValidator", pc |-> "called",
                   personal_number |-> personal_number,
                   checksum |-> NoChecksum, validity |-> {}]

\* PersonalNumberValidator.get_checksum(personal_number)
GetChecksum ==
    /\ frame.fn = "PersonalNumberValidator"
    /\ frame.pc = "called"
    /\ frame' = IF ChecksumRaises(frame.personal_number)
                THEN [frame EXCEPT !.pc = "raised"]
                ELSE [frame EXCEPT
                        !.pc = "get_checksum",
                        !.checksum = get_checksum(frame.personal_number)]
    /\ UNCHANGED <<db, unique_index, worker, history, calls, dicts, result, out, pool>>

\* PersonalNumberValidator.validate(personal_number)
Validate ==
    /\ frame.fn = "PersonalNumberValidator"
    /\ frame.pc \in {"get_checksum", "raised"}
    /\ frame' = [frame EXCEPT !.pc = "validate",
                              !.validity = validate(frame.personal_number)]
    /\ UNCHANGED <<db, unique_index, worker, history, calls, dicts, result, out, pool>>

NextPersonalNumber ==
    \/ GetChecksum
    \/ Validate

SpecPersonalNumber == InitPersonalNumber /\ [][NextPersonalNumber]_vars

IsTenDigit(text) == Len(text) = 10 /\ \A i \in 1..10 : text[i] \in DecDigits

\* the Luhn algorithm: every other digit from the first is doubled, and 9 is
\* taken off a double above 9
LuhnDouble(d) == IF 2 * d > 9 THEN 2 * d - 9 ELSE 2 * d

RECURSIVE LuhnSum(_, _)
LuhnSum(text, n) ==
    IF n = 0 THEN 0
    ELSE (IF n % 2 = 1 THEN LuhnDouble(int(text[n])) ELSE int(text[n]))
         + LuhnSum(text, n - 1)

LuhnCheckDigit(text) == (10 - (LuhnSum(text, 9) % 10)) % 10

\* C29: for a 10-digit personal number get_checksum returns the Luhn check
\* digit of the first nine digits, a value in 0..9, and validate sets the
\* CHECKSUM flag exactly when the last digit equals that check digit.
C29_ChecksumIsLuhnCheckDigit ==
    (/\ frame.fn = "PersonalNumberValidator"
     /\ IsTenDigit(frame.personal_number)
     /\ frame.pc # "called")
    => /\ frame.pc # "raised"
       /\ frame.checksum = LuhnCheckDigit(frame.personal_number)
       /\ frame.checksum \in 0..9
       /\ frame.pc = "validate" =>
             ("CHECKSUM" \in frame.validity
                <=> int(frame.personal_number[10]) =
                        LuhnCheckDigit(frame.personal_number))

----------------------------------------------------------------------------
(* SpecMain: one call of stage_2.main, with one process or with a pool of   *)
(* processes. main calls the three stage functions one after the other; a    *)
(* stage function makes its batches and returns when its loop over them, or  *)
(* over the results of the pool, has ended. An exception of a batch leaves   *)
(* the stage function and main.                                              *)

\* --num_processes
NProc == {1, 2}

\* the statement of main that follows the call of a stage
NextStage(job) ==
    CASE job = "series" -> "study"
      [] job = "study" -> "patient"
      [] OTHER -> "end"

\* what the loop of a stage function runs over: the single-process main of
\* the Series stage takes the proto-series one by one, every other function
\* batches of BatchSize
MainBatches(job, n_proc) ==
    IF job = "series" /\ n_proc = 1
    THEN (IF Enumerate(job) = <<>> THEN <<>> ELSE <<Enumerate(job)>>)
    ELSE batcher(Enumerate(job), BatchSize)

MainRuns == 2

InitMain ==
    /\ IdlePipeline
    /\ \E images \in PoolImageSeqs :
           db = [EmptyDb EXCEPT !["ImageMetadata"] = images]
    /\ NoConsensusRun
    /\ \E n_proc \in NProc :
          frame = [fn |-> "main", n_proc |-> n_proc, stage |-> "series",
                   pc |-> "call", queue |-> <<>>, runs |-> 1,
                   made |-> [job \in Stages |-> 0]]

\* main calls the stage function: sanity_check of the Series stage divides by
\* the number of images, then the batches are made, for the pool if any
MainCall ==
    /\ frame.fn = "main"
    /\ frame.pc = "call"
    /\ frame.stage \in Stages
    /\ IF frame.stage = "series" /\ Len(db.ImageMetadata) = 0
       THEN /\ frame' = [frame EXCEPT !.pc = "raised"]
            /\ pool' = pool
       ELSE LET batches == MainBatches(frame.stage, frame.n_proc)
            IN  /\ frame' = [frame EXCEPT
                               !.pc = "loop",
                               !.queue = IF frame.n_proc = 1 THEN batches
                                         ELSE <<>>,
                               !.made[frame.stage] = Len(batches)]
                /\ pool' = IF frame.n_proc = 1 THEN pool
                           ELSE [IdlePool EXCEPT !.job = frame.stage,
                                                 !.queue = batches,
                                                 !.first = Len(history),
                                                 !.outcome = "running",
                                                 !.runs = pool.runs + 1]
    /\ UNCHANGED <<db, unique_index, worker, history, calls, dicts, result, out>>

\* for batch in iterable: the single process calls the batch function
MainBatch ==
    /\ frame.fn = "main"
    /\ frame.pc = "loop"
    /\ frame.n_proc = 1
    /\ frame.queue # <<>>
    /\ Free(1)
    /\ worker[1].outcome # "raised"
    /\ worker' = [worker EXCEPT ![1] =
           [IdleWorker EXCEPT !.job = frame.stage, !.pc = "fetch", !.client = "open",
                              !.kind = KindOf(frame.stage),
                              !.groups = Head(frame.queue),
                              !.batch = Head(frame.queue),
                              !.outcome = "running", !.runs = 1]]
    /\ frame' = [frame EXCEPT !.queue = Tail(@)]
    /\ UNCHANGED <<db, unique_index, history, calls, dicts, result, out, pool>>

\* the mutant of LoopIsOver: the stage function returns at the first result
LoopEndsAtFirstResult ==
    IF frame.n_proc = 1
    THEN Free(1) /\ worker[1].outcome # "raised"
    ELSE pool.outcome = "running" /\ pool.collected >= 1

\* the loop of the stage function has ended: the single process has run the
\* last batch, or imap_unordered has given one result for every batch
LoopIsOver ==
    IF frame.n_proc = 1
    THEN frame.queue = <<>> /\ Free(1) /\ worker[1].outcome # "raised"
    ELSE pool.outcome = "running" /\ pool.collected = frame.made[frame.stage]

\* the stage function returns and main goes on to its next statement
MainReturn ==
    /\ frame.fn = "main"
    /\ frame.pc = "loop"
    /\ LoopIsOver
    /\ frame' = IF NextStage(frame.stage) = "end"
                THEN [frame EXCEPT !.pc = "returned"]
                ELSE [frame EXCEPT !.pc = "call",
                                   !.stage = NextStage(frame.stage)]
    /\ pool' = IF frame.n_proc = 1 THEN pool
               ELSE [pool EXCEPT !.outcome = "returned"]
    /\ UNCHANGED <<db, unique_index, worker, history, calls, dicts, result, out>>

\* the exception of a batch leaves the stage function and main
MainRaise ==
    /\ frame.fn = "main"
    /\ frame.pc = "loop"
    /\ IF frame.n_proc = 1
       THEN Free(1) /\ worker[1].outcome = "raised"
       ELSE pool.outcome = "raised"
    /\ frame' = [frame EXCEPT !.pc = "raised"]
    /\ UNCHANGED <<db, unique_index, worker, history, calls, dicts, result, out, pool>>

\* stage_2 is called again on the store the call before has left, with new
\* processes; history holds the batches of the running call only
MainAgain ==
    /\ frame.fn = "main"
    /\ frame.pc = "returned"
    /\ frame.runs < MainRuns
    /\ \A w \in Workers : Free(w)
    /\ \E n_proc \in NProc :
          frame' = [frame EXCEPT !.n_proc = n_proc, !.stage = "series",
                                 !.pc = "call", !.runs = @ + 1,
                                 !.made = [job \in Stages |-> 0]]
    /\ history' = <<>>
    /\ worker' = [w \in Workers |-> IdleWorker]
    /\ pool' = IdlePool
    /\ UNCHANGED <<db, unique_index, calls, dicts, result, out>>

NextMain ==
    \/ MainCall
    \/ MainAgain
    \/ MainBatch
    \/ MainReturn
    \/ MainRaise
    \/ \E w \in Workers : PoolDispatch(w)
    \/ \E w \in Workers : StageStep(w)
    \/ PoolCollect
    \/ \E w \in Workers :
          /\ frame.pc = "raised"
          /\ Stop(w)

SpecMain == InitMain /\ [][NextMain]_vars

\* the batches of a stage that have ended in this call of main
Finished(job) == {i \in DOMAIN history : history[i].job = job}

\* a batch of the stage is waiting or being processed
Unfinished(job) ==
    \/ \E w \in Workers : worker[w].job = job /\ ~Free(w)
    \/ pool.job = job /\ pool.queue # <<>>
    \/ frame.stage = job /\ frame.queue # <<>>

\* C30: while a proto-group of a stage is being processed in a call of
\* stage_2.main, with one process or with a pool, every batch of each earlier
\* stage has been made and has ended, and no batch of a later stage has
\* started.
C30_StagesRunInOrder ==
    frame.fn = "main" =>
        \A w \in Workers :
            (worker[w].job \in Stages /\ ~Free(w)) =>
                /\ worker[w].job = frame.stage
                /\ \A job \in Stages :
                      /\ Rank(job) < Rank(worker[w].job) =>
                            /\ ~Unfinished(job)
                            /\ Cardinality(Finished(job)) = frame.made[job]
                      /\ Rank(job) > Rank(worker[w].job) =>
                            /\ ~Unfinished(job)
                            /\ Finished(job) = {}

\* a pool worker processes a proto-patient after the two batches of
\* proto-studies, taken by two workers, have ended
C30_Witness ==
    /\ frame.fn = "main"
    /\ frame.n_proc = 2
    /\ \E w \in Workers : worker[w].job = "patient" /\ worker[w].pc # "fetch"
                          /\ ~Free(w)
    /\ frame.made["study"] = 2
    /\ Cardinality(Finished("study")) = 2

----------------------------------------------------------------------------
(* SpecIndex: two clients call insert_one and the read operations of the     *)
(* three DAOs on a database that starts empty; their calls may overlap.      *)

ParentKinds == {"Patient", "RadiologicalStudy", "RadiologicalSeries"}

\* find, get_by_id, PatientDao.exists and get_all_ids: queries of the
\* collection; none of them calls _ensure_index_exists
ReadOperations == {"find", "get_by_id", "exists", "get_all_ids"}

InitIndex ==
    /\ IdlePipeline
    /\ db = EmptyDb
    /\ NoConsensusRun
    /\ frame = [fn |-> "EntityDao", op |-> "none", kind |-> "Patient",
                reads |-> 0]

\* a client calls a read operation of a DAO
Read(kind, op) ==
    /\ frame.fn = "EntityDao"
    /\ frame.reads < MaxCalls
    /\ frame' = [frame EXCEPT !.op = op, !.kind = kind, !.reads = @ + 1]
    /\ UNCHANGED <<db, unique_index, worker, history, calls, dicts, result, out, pool>>

\* the calls of insert_one that have started
Started == Len(calls) + Cardinality({w \in Workers : ~Free(w)})

NextIndex ==
    \/ \E w \in Workers, kind \in ParentKinds :
         \E entity \in EntitiesOf(kind), skip \in BOOLEAN :
            /\ Started < MaxCalls
            /\ CallInsertOne(w, kind, entity, skip)
    \/ \E w \in Workers : Exists(w)
    \/ \E w \in Workers : InsertOne(w)
    \/ \E w \in Workers : Requery(w)
    \/ \E w \in Workers : EnsureIndex(w)
    \/ \E kind \in ParentKinds, op \in ReadOperations : Read(kind, op)

SpecIndex == InitIndex /\ [][NextIndex]_vars

\* a step of a read operation
ReadStep == frame'.reads # frame.reads

\* C31: no read operation of PatientDao, StudyDao or SeriesDao creates the
\* unique index, and when a call of insert_one has returned an id the unique
\* index exists on its collection.
C31_IndexExistsAfterInsert ==
    /\ [][ReadStep => unique_index' = unique_index]_vars
    /\ [](\A w \in Workers :
            (/\ worker[w].job = "dao"
             /\ worker[w].pc = "done"
             /\ worker[w].outcome = "returned")
            => worker[w].kind \in unique_index)

----------------------------------------------------------------------------
(* The updates of a series during the backfill of the Study stage *)

\* worker w runs the first batch of the Study stage, directly after a Series
\* stage that returned on a store without series: every study_id a series
\* holds was written by this batch
FirstStudyBatch(w) ==
    /\ worker[w].job = "study"
    /\ ~Free(w)
    /\ Len(history) = 1
    /\ history[1].job = "series"
    /\ history[1].outcome = "returned"

\* C32: in a batch of the Study stage a series document receives at most one
\* study_id update: no step of the batch writes the study_id of a series the
\* batch has written before.
C32_OneSeriesUpdatePerBatch ==
    [][\A w \in Workers :
          FirstStudyBatch(w) =>
              \A sid \in DOMAIN db.RadiologicalSeries :
                  db'.RadiologicalSeries[sid].study_id #
                      db.RadiologicalSeries[sid].study_id
                  => db.RadiologicalSeries[sid].study_id = NoId]_vars

----------------------------------------------------------------------------
(* The derived counters of the persisted groups *)

\* the parent documents with the key of proto-group g of run i, in the store
\* the run left
ParentsOfGroup(i, g) ==
    LET h == history[i]
    IN  {n \in DOMAIN h.db[KindOf(h.job)] :
            ParentKey(h.job, h.db[KindOf(h.job)][n]) = h.groups[g]._id}

\* the series identifiers the images of proto-group g of run i carry
SeriesIdentifiers(i, g) ==
    {history[i].db.ImageMetadata[history[i].groups[g].ids[m]]
         .dicom_tags["SeriesInstanceUID"] :
       m \in DOMAIN history[i].groups[g].ids} \ {Absent}

\* C33: when a run of the Series or of the Study stage has returned, the
\* parent of every persisted proto-group of the run holds the group's real
\* membership: a series the number of image ids of its proto-series, a study
\* the number of distinct series identifiers among the images of its
\* proto-study (0 when none carries one).
C33_CountersEqualMembership ==
    \A i \in DOMAIN history :
        history[i].outcome = "returned" =>
            \A g \in PersistedGroups(i) :
                \A n \in ParentsOfGroup(i, g) :
                    /\ history[i].job = "series" =>
                          history[i].db.RadiologicalSeries[n].image_count =
                              Len(history[i].groups[g].ids)
                    /\ history[i].job = "study" =>
                          history[i].db.RadiologicalStudy[n].series_count =
                              Cardinality(SeriesIdentifiers(i, g))

----------------------------------------------------------------------------
(* The Enumerate step partitions the child collection *)

\* the places <<group, position>> where document id occurs in the
\* proto-groups gs
Occurrences(gs, id) ==
    UNION {{<<n, m>> : m \in {k \in DOMAIN gs[n].ids : gs[n].ids[k] = id}} :
              n \in DOMAIN gs}

\* C34: in every state the proto-groups enumerated from the store partition
\* the child collection: an image with a series identifier occurs once, in the
\* proto-series keyed by its identifier, and an image without one in no
\* proto-series; every image occurs once in the proto-studies and every study
\* once in the proto-patients; no proto-group is empty.
C34_EnumeratePartitions ==
    /\ \A i \in DOMAIN db.ImageMetadata :
          LET uid == db.ImageMetadata[i].dicom_tags["SeriesInstanceUID"]
              occ == Occurrences(proto_series_generator, i)
          IN  /\ uid = Absent => occ = {}
              /\ uid # Absent =>
                    /\ Cardinality(occ) = 1
                    /\ \A p \in occ : proto_series_generator[p[1]]._id = uid
    /\ \A i \in DOMAIN db.ImageMetadata :
          Cardinality(Occurrences(proto_study_generator, i)) = 1
    /\ \A i \in DOMAIN db.RadiologicalStudy :
          Cardinality(Occurrences(proto_patient_generator, i)) = 1
    /\ \A n \in DOMAIN proto_series_generator :
          proto_series_generator[n].ids # <<>>
    /\ \A n \in DOMAIN proto_study_generator :
          proto_study_generator[n].ids # <<>>
    /\ \A n \in DOMAIN proto_patient_generator :
          proto_patient_generator[n].ids # <<>>

\* two images of one series and a stored study are enumerated
C34_Witness ==
    /\ \E i, j \in DOMAIN db.ImageMetadata :
          /\ i # j
          /\ db.ImageMetadata[i].dicom_tags["SeriesInstanceUID"] # Absent
          /\ db.ImageMetadata[i].dicom_tags["SeriesInstanceUID"] =
                db.ImageMetadata[j].dicom_tags["SeriesInstanceUID"]
    /\ db.RadiologicalStudy # <<>>
    /\ Len(proto_series_generator) = 1
    /\ Len(proto_patient_generator) >= 1

----------------------------------------------------------------------------
(* The store connection of a batch function *)

\* C35: a batch function that has ended, by returning its counter or by an
\* exception, has closed the store connection it opened.
C35_ConnectionClosedAtExit ==
    \A w \in Workers :
        (/\ worker[w].job \in Stages
         /\ worker[w].pc = "done"
         /\ worker[w].outcome \in {"returned", "raised"})
        => worker[w].client = "closed"

----------------------------------------------------------------------------
(* The series an image references belongs to the image's study *)

\* C36: once the Series stage and then the Study stage have returned, every
\* image with both series_id and study_id set references a series whose
\* study_id is the image's own study_id.
C36_SeriesOfImageInImageStudy ==
    (/\ Len(history) = 2
     /\ history[1].job = "series" /\ history[1].outcome = "returned"
     /\ history[2].job = "study" /\ history[2].outcome = "returned")
    => \A i \in DOMAIN history[2].db.ImageMetadata :
          LET im == history[2].db.ImageMetadata[i]
          IN  (im.series_id # NoId /\ im.study_id # NoId)
              => history[2].db.RadiologicalSeries[im.series_id].study_id =
                    im.study_id

----------------------------------------------------------------------------
(* get_patient_path on the ids of 64 hexadecimal characters *)

\* C37: get_patient_path returns, for every id of exactly 64 hexadecimal
\* characters (the all-zero id included), the folders id[0:3]/id[3:6]/id[6:24].
C37_EveryHexIdIsSplit ==
    [][(/\ frame.fn = "get_instance_path"
        /\ frame.pc = "get_patient_path"
        /\ IsHexId(frame.ds["PatientID"]))
       => /\ frame'.pc = "join"
          /\ frame'.path =
                SubSeq(Chars(frame.ds["PatientID"]), 1, 3) \o <<"/">>
                \o SubSeq(Chars(frame.ds["PatientID"]), 4, 6) \o <<"/">>
                \o SubSeq(Chars(frame.ds["PatientID"]), 7, 24)]_vars

----------------------------------------------------------------------------
(* scripts/pseudonymize_image_metadata.py: main lists the source images,     *)
(* process_batch walks the list and process_im_meta reads an image's file,   *)
(* pseudonymizes it, writes the result on the destination drive, inserts a   *)
(* document with the image's _id into the destination collection and adds    *)
(* the new file source to the source document.  The frame holds the source   *)
(* collection (src: the aka_file_sources of each image, by drive name), the  *)
(* _ids of the destination collection (dst), the images whose de-identified  *)
(* file is on the destination drive (files), the number of write_file calls  *)
(* that succeeded (writes), the listed documents (imgs) and the position of  *)
(* the batch loop (next, pc).  File reading, the de-identification and the   *)
(* file writing are outside the program: their outcome is any of those the   *)
(* code handles.                                                             *)

\* the source images and the invocations of main
PseudoImages == 2
PseudoRuns == 2

\* cfg.dst_drive_name, and a drive that is not the destination
DstDrive == "dst_drive"
OtherDrive == "other_drive"

\* process_im_meta has not returned a value
NoReturn == -1

\* the exceptions of deider.pseudonymize that process_im_meta catches
PseudonymizeErrors == {"ValueError", "KeyError", "BytesLengthException"}

InitPseudonymize ==
    /\ IdlePipeline
    /\ db = EmptyDb
    /\ NoConsensusRun
    /\ \E n \in 1..PseudoImages :
         \E aka \in [1..n -> {<<>>, <<OtherDrive>>}] :
           frame = [fn |-> "pseudonymize", pc |-> "idle",
                    src |-> [i \in 1..n |-> [aka_file_sources |-> aka[i]]],
                    dst |-> {}, files |-> {}, writes |-> 0,
                    imgs |-> <<>>, next |-> 0, seen |-> 0, processed |-> 0,
                    ret |-> NoReturn, raised |-> "none", written |-> FALSE, runs |-> 0,
                    stops |-> 0, clients |-> "none"]

\* the document the batch loop is at
im_meta_dict == frame.imgs[frame.next]

\* the mutant of AlreadyCreated: the test looks at the first file source only
FirstIsCreated(d) ==
    d.aka_file_sources # <<>> /\ d.aka_file_sources[1] = DstDrive

\* dst_file_source.drive_name in
\*     [x.get("drive_name") for x in im_meta_dict.get("aka_file_sources", [])]
AlreadyCreated(d) ==
    \E k \in DOMAIN d.aka_file_sources : d.aka_file_sources[k] = DstDrive

\* process_im_meta returns n to process_batch: processed += n
Return(n) ==
    [frame EXCEPT !.pc = "loop", !.ret = n, !.processed = @ + n]

PseudoUnchanged ==
    UNCHANGED <<db, unique_index, worker, history, calls, dicts, result, out, pool>>

\* main: imgs = list(im_meta_generator(...)), one batch; process_batch
\* creates its two DAOs
PseudoMain ==
    /\ frame.fn = "pseudonymize" /\ frame.pc = "idle"
    /\ frame.runs < PseudoRuns
    /\ frame' = [frame EXCEPT
           !.pc = "loop",
           !.imgs = [i \in DOMAIN frame.src |->
                        [_id |-> i,
                         aka_file_sources |-> frame.src[i].aka_file_sources]],
           !.next = 0, !.seen = 0, !.processed = 0, !.ret = NoReturn,
           !.raised = "none",
           !.runs = @ + 1, !.clients = "open"]
    /\ PseudoUnchanged

\* for im_meta in im_metas: seen += 1
NextImMeta ==
    /\ frame.fn = "pseudonymize" /\ frame.pc = "loop"
    /\ frame.next < Len(frame.imgs)
    /\ frame' = [frame EXCEPT !.pc = "read_file", !.next = @ + 1,
                              !.seen = @ + 1, !.ret = NoReturn,
                              !.raised = "none", !.written = FALSE]
    /\ PseudoUnchanged

\* pydicom.read_file(src_filepath): any exception is logged and 0 returned
ReadFile(ok) ==
    /\ frame.fn = "pseudonymize" /\ frame.pc = "read_file"
    /\ frame' = IF ok THEN [frame EXCEPT !.pc = "pseudonymize"] ELSE Return(0)
    /\ PseudoUnchanged

\* cfg.deider.pseudonymize(src_ds): the three caught exceptions return 0
Pseudonymize(outcome) ==
    /\ frame.fn = "pseudonymize" /\ frame.pc = "pseudonymize"
    /\ frame' = IF outcome = "ok" THEN [frame EXCEPT !.pc = "already_created"]
                ELSE Return(0)
    /\ PseudoUnchanged

\* the test for a file source on the destination drive: IndexError, which
\* process_batch catches and passes
CheckAlreadyCreated ==
    /\ frame.fn = "pseudonymize" /\ frame.pc = "already_created"
    /\ frame' = IF AlreadyCreated(im_meta_dict)
                THEN [frame EXCEPT !.pc = "loop", !.raised = "IndexError"]
                ELSE [frame EXCEPT !.pc = "write_file"]
    /\ PseudoUnchanged

\* os.makedirs, pydicom.write_file(dst_filepath, deid_ds): a ValueError is
\* logged and the function goes on
WriteFile(ok) ==
    /\ frame.fn = "pseudonymize" /\ frame.pc = "write_file"
    /\ frame' = IF ok
                THEN [frame EXCEPT !.pc = "insert_one",
                                   !.files = @ \cup {im_meta_dict._id},
                                   !.writes = @ + 1, !.written = TRUE]
                ELSE [frame EXCEPT !.pc = "insert_one"]
    /\ PseudoUnchanged

\* dst_im_dao.insert_one(deid_im_meta), the document has the _id of the
\* source image: DuplicateKeyError is logged and 0 returned
DstInsertOne ==
    /\ frame.fn = "pseudonymize" /\ frame.pc = "insert_one"
    /\ frame' = IF im_meta_dict._id \in frame.dst THEN Return(0)
                ELSE [frame EXCEPT !.pc = "add_aka",
                                   !.dst = @ \cup {im_meta_dict._id}]
    /\ PseudoUnchanged

\* src_im_dao.add_aka(im_meta._id, dst_file_source); return 1
AddAka ==
    /\ frame.fn = "pseudonymize" /\ frame.pc = "add_aka"
    /\ frame' = [Return(1) EXCEPT
           !.src[im_meta_dict._id].aka_file_sources = Append(@, DstDrive)]
    /\ PseudoUnchanged

\* the loop is over: finally both connections are closed; return seen,
\* processed
ProcessBatchReturn ==
    /\ frame.fn = "pseudonymize" /\ frame.pc = "loop"
    /\ frame.next = Len(frame.imgs)
    /\ frame' = [frame EXCEPT !.pc = "idle", !.clients = "closed"]
    /\ PseudoUnchanged

\* the process is killed inside process_im_meta
PseudoStop ==
    /\ frame.fn = "pseudonymize"
    /\ frame.pc \notin {"idle", "loop"}
    /\ frame.stops < MaxStops
    /\ frame' = [frame EXCEPT !.pc = "idle", !.ret = NoReturn,
                              !.stops = @ + 1, !.clients = "none"]
    /\ PseudoUnchanged

NextPseudonymize ==
    \/ PseudoMain
    \/ NextImMeta
    \/ \E ok \in BOOLEAN : ReadFile(ok)
    \/ \E outcome \in {"ok"} \cup PseudonymizeErrors : Pseudonymize(outcome)
    \/ CheckAlreadyCreated
    \/ \E ok \in BOOLEAN : WriteFile(ok)
    \/ DstInsertOne
    \/ AddAka
    \/ ProcessBatchReturn
    \/ PseudoStop

SpecPseudonymize == InitPseudonymize /\ [][NextPseudonymize]_vars

\* the listed document d has a file source on the destination drive
OnDstDrive(d) ==
    DstDrive \in {d.aka_file_sources[k] : k \in DOMAIN d.aka_file_sources}

\* process_im_meta is at work on a listed document that has a file source on
\* the destination drive
AtCreatedImage ==
    /\ frame.pc \notin {"idle", "loop"}
    /\ OnDstDrive(im_meta_dict)

\* the file sources of source image i that are on the destination drive
DstEntries(i) ==
    {k \in DOMAIN frame.src[i].aka_file_sources :
        frame.src[i].aka_file_sources[k] = DstDrive}

\* C38: process_im_meta on a listed image that already has a file source on
\* the destination drive writes no file, inserts no destination document,
\* adds no file source and adds nothing to processed; a batch that returned
\* has seen every listed image and processed at most those without such a
\* file source; no source image ever has two file sources on the destination
\* drive.
C38_CreatedImageIsSkipped ==
    /\ [][AtCreatedImage =>
            /\ frame'.writes = frame.writes
            /\ frame'.files = frame.files
            /\ frame'.dst = frame.dst
            /\ frame'.src = frame.src
            /\ frame'.processed = frame.processed
            /\ frame'.seen = frame.seen]_vars
    /\ [](frame.clients = "closed" =>
            /\ frame.seen = Len(frame.imgs)
            /\ frame.processed <=
                  Cardinality({i \in DOMAIN frame.imgs :
                                  ~OnDstDrive(frame.imgs[i])}))
    /\ [](\A i \in DOMAIN frame.src : Cardinality(DstEntries(i)) <= 1)

\* in a second run an image with a file source on the destination drive was
\* passed over
C38_Witness ==
    /\ frame.runs = 2
    /\ frame.pc = "loop"
    /\ frame.raised = "IndexError"
    /\ frame.seen = 1 /\ frame.processed = 0

\* C39: a source image has a file source on the destination drive only if its
\* de-identified file was written there and the destination collection has a
\* document with its _id; process_im_meta returns 1 only for such an image.
C39_AkaOnlyAfterFileAndDocument ==
    /\ \A i \in DOMAIN frame.src :
          DstEntries(i) # {} => (i \in frame.files /\ i \in frame.dst)
    /\ frame.ret = 1 =>
          /\ im_meta_dict._id \in frame.files
          /\ im_meta_dict._id \in frame.dst
          /\ DstEntries(im_meta_dict._id) # {}

=============================================================================
